---- MODULE Spec2Model ----
(***************************************************************************)
(* A model of the raster core of the QGIS geoprocessing tools:             *)
(*   - the unit conversion pass   (usgs_lidar_download.py,                 *)
(*                                 convert_dem_to_feet)                    *)
(*   - the mosaic builder         (usgs_lidar_download.py, create_mosaic)  *)
(*   - the cut/fill tool          (cut_fill_volumes.py, processAlgorithm)  *)
(* Each component has its own specification (SpecConvert, SpecMosaic,      *)
(* SpecCutFill); the variables of the other components stay idle.          *)
(***************************************************************************)
EXTENDS Integers, Sequences, FiniteSets, Bags, TLC

VARIABLES
    \* ---- unit conversion pass (convert_dem_to_feet)
    conv_ds,        \* the opened dataset: xsize, ysize, nodata sentinel, nodata cells
    conv_band,      \* band 1, observed at the tracked cells: cell -> <<num, den>>
    conv_x,         \* x of the window being processed
    conv_y,         \* y of the window being processed
    conv_pc,        \* position in convert_dem_to_feet
    conv_io,        \* the windows whose read or write failed
    conv_windows,   \* the windows asked of ReadAsArray so far, as a bag
    \* ---- mosaic builder (create_mosaic)
    results,        \* the download records handed to create_mosaic
    tile_files,     \* the tile rasters on disk: path -> raster
    aoi_layer,      \* the clip layer, or NoLayer
    convert_to_feet,\* the 'Convert to Feet' option
    res_i,          \* index of the next record of the grouping loop
    tiles_by_gsd,   \* the groups: gsd -> sequence of paths
    tile_paths,     \* the list handed to gdal.BuildVRT
    vrt,            \* the virtual mosaic (NoRaster until built)
    mosaic,         \* the output raster at mosaic_path (NoRaster until warped)
    mosaic_pc,      \* position in create_mosaic
    mosaic_faults,  \* the gdal calls of create_mosaic that returned None
    mosaic_info,    \* the 'Mosaic created successfully!' report, once pushed
    mosaic_ops,     \* the operations done on the output raster, in order
    \* ---- cut/fill tool (DEMComparisonTool.processAlgorithm)
    existing_dem,   \* the existing raster: crs, geotransform, size, data
    proposed_dem,   \* the proposed raster
    grid,           \* pixel_size, x_min, y_max, width, height
    output_ds,      \* the output raster file (NoRaster until created)
    existing_data,  \* the window read from the existing raster
    proposed_data,  \* the window read from the proposed raster
    difference,     \* proposed_data - existing_data
    volumes,        \* cut_volume, fill_volume, net_volume
    reported,       \* the lines pushed to the feedback sink
    cut_pc,         \* position in processAlgorithm
    \* ---- LiDAR downloader (DownloadOprDemsAlgorithm.processAlgorithm)
    all_tiles,      \* the tiles to download: GSD and remote state of each
    tile_i,         \* index of the next tile of the download loop
    canceled,       \* the feedback's cancellation flag
    cancel_seen,    \* download_tiles has seen the flag set and left its loop
    manifest,       \* the rows of manifest.csv (NoRaster until written)
    lidar_pc,       \* position in processAlgorithm
    generate_contours, \* the 'Generate contours' option
    \* ---- profile generator (ProfileGeneratorAlgorithm.processAlgorithm)
    prof_lines,     \* the parts of the feature: segment lengths of each part
    dem_voids,      \* the places of the feature where the DEM holds its nodata value
    prof_part,      \* index of the part being walked
    prof_seg,       \* index of the segment being walked
    prof_j,         \* index of the next sample of the segment
    segment_length, \* length of the segment last measured
    total_distance, \* distance added to the samples of a segment
    profile_data,   \* the rows recorded for the worksheet
    prof_pc,        \* position in the loops over the feature
    \* ---- FEMA NFHL downloader (FemaNfhlDownloaderAlgorithm.processAlgorithm)
    layers_to_download, \* the layers selected, by priority
    clip_layers,    \* the 'Clip layers to AOI' option
    aoi_geom,       \* the geometry of the first AOI feature
    null_is_true,   \* what bool() of a null QgsGeometry gives in the QGIS at hand
    fema_i,         \* index of the next layer of the download loop
    fema_canceled,  \* the feedback's cancellation flag
    fema_log,       \* what _download_layer did with each layer so far
    fema_pc,        \* position in processAlgorithm
    \* ---- index query (DownloadOprDemsAlgorithm.query_3dep_index)
    page_total,     \* the number of records the server holds for the AOI
    page_empty,     \* the records whose sourcedem_link is empty
    page_fault,     \* the request that fails and how, or NoFault
    result_offset,  \* resultOffset of the next request
    items,          \* the records kept so far
    page_requests,  \* the offsets requested so far, in order
    page_pc,        \* position in query_3dep_index
    \* ---- endpoint sampler (SampleRasterAtLineEndpoints.processAlgorithm)
    was_editable,   \* the line layer was in an edit session at the start
    editable,       \* line_layer.isEditable()
    started_edit,   \* the algorithm has opened the edit session itself
    fields_left,    \* the fields of the field loop still to look at
    feats_left,     \* the features of the sampling loop still to visit
    edit_canceled,  \* the feedback's cancellation flag
    edit_calls,     \* startEditing / commitChanges / rollBack calls, in order
    edit_pc,        \* position in processAlgorithm
    \* ---- SSURGO downloader (SSURGODownloaderAlgorithm.processAlgorithm)
    components,     \* the component rows returned by the tabular service
    comp_i,         \* index of the next row of the dominant-component loop
    dominant_components, \* mukey -> the component kept for it
    soil_polys,     \* the mukeys of the soil polygons, in layer order
    poly_i,         \* index of the next polygon of the output loop
    soil_out,       \* the features added to the sink
    soil_pc         \* position in processAlgorithm

convVars == <<conv_ds, conv_band, conv_x, conv_y, conv_pc, conv_io,
              conv_windows>>
mosaicVars == <<results, tile_files, aoi_layer, convert_to_feet, res_i,
                tiles_by_gsd, tile_paths, vrt, mosaic, mosaic_pc,
                mosaic_faults, mosaic_info, mosaic_ops>>
cutVars == <<existing_dem, proposed_dem, grid, output_ds, existing_data,
             proposed_data, difference, volumes, reported, cut_pc>>
lidarVars == <<all_tiles, tile_i, canceled, cancel_seen, manifest, lidar_pc,
               generate_contours>>
profVars == <<prof_lines, dem_voids, prof_part, prof_seg, prof_j,
              segment_length, total_distance, profile_data, prof_pc>>
femaVars == <<layers_to_download, clip_layers, aoi_geom, null_is_true, fema_i,
              fema_canceled, fema_log, fema_pc>>
pageVars == <<page_total, page_empty, page_fault, result_offset, items,
              page_requests, page_pc>>
editVars == <<was_editable, editable, started_edit, fields_left, feats_left,
              edit_canceled, edit_calls, edit_pc>>
soilVars == <<components, comp_i, dominant_components, soil_polys, poly_i,
              soil_out, soil_pc>>
vars == <<convVars, mosaicVars, cutVars, lidarVars, profVars, femaVars,
          pageVars, editVars, soilVars>>

\* A raster handle that does not exist (yet): gdal returns None.
NoRaster == [exists |-> FALSE]

(***************************************************************************)
(* Numbers.  Elevations are floating point in the code; the model keeps    *)
(* them exact as fractions <<numerator, denominator>> in lowest terms,      *)
(* denominator > 0, so that equal numbers are equal pairs.                 *)
(***************************************************************************)
Abs(a) == IF a < 0 THEN 0 - a ELSE a
RECURSIVE Gcd(_, _)
Gcd(a, b) == IF b = 0 THEN a ELSE Gcd(b, a % b)
RatNorm(a) ==
    LET g == Gcd(Abs(a[1]), a[2])
    IN  <<(IF a[1] < 0 THEN 0 - (Abs(a[1]) \div g) ELSE a[1] \div g), a[2] \div g>>
Rat(v) == <<v, 1>>
RatMul(a, b) == RatNorm(<<a[1] * b[1], a[2] * b[2]>>)
RatAdd(a, b) == RatNorm(<<a[1] * b[2] + b[1] * a[2], a[2] * b[2]>>)
\* A magnitude reported with its sign kept.
RatSigned(a) == a
RatAbs(a) == <<Abs(a[1]), a[2]>>
RatEq(a, b) == RatNorm(a) = RatNorm(b)

\* METERS_TO_FEET = 3.28084 = 82021 / 25000
FeetNum == 82021
FeetDen == 25000
METERS_TO_FEET == <<FeetNum, FeetDen>>

\* chunk_size = 1024
chunk_size == 1024

(***************************************************************************)
(* Unit conversion pass: convert_dem_to_feet                               *)
(***************************************************************************)
\* Bounds of the rasters the pass is run on.
MaxChunks == 1
MaxNodata == 1

\* Raster sizes around the multiples of the chunk size: 1, 1023, 1024, 1025, ...
ConvSizes == {s \in 1..(MaxChunks * chunk_size + 1) :
                 s % chunk_size \in {0, 1, chunk_size - 1}}

\* The coordinates observed along one axis: the first and the last sample of
\* every chunk, and the last sample of the raster.
TrackedCoords(size) == {c \in 0..(size - 1) :
                           \/ c % chunk_size \in {0, chunk_size - 1}
                           \/ c = size - 1}
TrackedCells(xsize, ysize) == TrackedCoords(xsize) \X TrackedCoords(ysize)

\* Nodata sentinels a DEM may declare.
Sentinels == {0 - 9999, 0}

\* The elevation (metres) the raster holds at a valid cell before the pass.
Elev(cell) == ((cell[1] + 2 * cell[2]) % 5) - 1

\* The value a cell of dataset ds holds before the pass.
InputValue(ds, cell) ==
    IF cell \in ds.nodata_cells THEN Rat(ds.nodata) ELSE Rat(Elev(cell))

\* A window as large as the chunk size wherever it starts.
ChunkFull(off, size) == chunk_size

\* rows / cols of the window at offset off along an axis of the given size
\* (lines 1045-1048 and 1052-1055).
ChunkLen(off, size) ==
    IF off + chunk_size < size THEN chunk_size ELSE size - off

\* data = data * METERS_TO_FEET  (line 1062): every sample of the array read,
\* the nodata sentinel included.
ScaleSample(v) == RatMul(v, METERS_TO_FEET)

\* A window that scales its samples but copies those of its last column from
\* the column to their right, which belongs to the next window.
ConvertWindowReadingNeighbour(b, x, y, cols, rows) ==
    [cell \in DOMAIN b |->
        IF /\ cell[1] \in x..(x + cols - 1)
           /\ cell[2] \in y..(y + rows - 1)
        THEN IF cell[1] = x + cols - 1 /\ <<x + cols, cell[2]>> \in DOMAIN b
             THEN b[<<x + cols, cell[2]>>]
             ELSE RatMul(b[cell], METERS_TO_FEET)
        ELSE b[cell]]

\* ReadAsArray(x, y, cols, rows); data * METERS_TO_FEET; WriteArray(data, x, y)
\* on the band b (lines 1058-1065).
ConvertWindow(b, x, y, cols, rows) ==
    [cell \in DOMAIN b |->
        IF /\ cell[1] \in x..(x + cols - 1)
           /\ cell[2] \in y..(y + rows - 1)
        THEN ScaleSample(b[cell])
        ELSE b[cell]]

\* The whole pass over a band of the given size, window after window in the
\* order of the two loops (lines 1043-1065).
RECURSIVE ConvertFrom(_, _, _, _, _)
ConvertFrom(b, xsize, ysize, x, y) ==
    LET b2 == ConvertWindow(b, x, y, ChunkLen(x, xsize), ChunkLen(y, ysize))
    IN  IF x + chunk_size < xsize
        THEN ConvertFrom(b2, xsize, ysize, x + chunk_size, y)
        ELSE IF y + chunk_size < ysize
             THEN ConvertFrom(b2, xsize, ysize, 0, y + chunk_size)
             ELSE b2

(***************************************************************************)
(* Mosaic builder: create_mosaic                                           *)
(* Tiles lie on one common pixel grid along one axis; a tile raster is     *)
(* [x0, xsize, nodata, data], data[j] the sample of world pixel x0 + j.    *)
(***************************************************************************)
MaxTiles == 2
MaxGsd == 2
MaxShift == 1
TileWidth == 2

\* output_path = None (line 546): a record without a local file.
NoPath == 0
NoLayer == [exists |-> FALSE]
TileNodata == 0 - 9999
Statuses == {"exists", "downloaded", "error"}

\* The raster of the tile stored at path k, at offset x0, whose first sample
\* is nodata when nd holds; a valid sample encodes its tile and world pixel.
TileRaster(k, x0, nd) ==
    [exists |-> TRUE, x0 |-> x0, xsize |-> TileWidth, nodata |-> TileNodata,
     data |-> [j \in 0..(TileWidth - 1) |->
                 IF nd /\ j = 0 THEN TileNodata ELSE 10 * k + x0 + j]]

\* A record that never has a local file.
ResultRecordNoPath(gsd, path, status) ==
    [dem_gsd_meters |-> gsd, local_path |-> NoPath, status |-> status]
\* One record of download_tiles (lines 548-552).
ResultRecord(gsd, path, status) ==
    [dem_gsd_meters |-> gsd, local_path |-> path, status |-> status]

\* if result['local_path'] and result['status'] != 'error'  (line 576)
UsableAny(result) == TRUE
Usable(result) == result.local_path # NoPath /\ result.status # "error"

\* The key a record is grouped under (line 577).
GroupKey(result) == result.dem_gsd_meters

\* One iteration of the grouping loop (lines 575-580).
GroupAddOverwrite(groups, result) ==
    IF Usable(result)
    THEN [g \in DOMAIN groups \cup {GroupKey(result)} |->
            IF g = GroupKey(result) THEN <<result.local_path>> ELSE groups[g]]
    ELSE groups
GroupAdd(groups, result) ==
    IF Usable(result)
    THEN LET gsd == GroupKey(result)
             old == IF gsd \in DOMAIN groups THEN groups[gsd] ELSE <<>>
         IN  [g \in DOMAIN groups \cup {gsd} |->
                IF g = gsd THEN Append(old, result.local_path) ELSE groups[g]]
    ELSE groups

\* sorted(tiles_by_gsd.keys())  (line 586)
RECURSIVE SortedSeq(_)
SortedSeq(S) ==
    IF S = {} THEN <<>>
    ELSE LET m == CHOOSE a \in S : \A b \in S : a <= b
         IN  <<m>> \o SortedSeq(S \ {m})

\* tiles_by_gsd[sorted_gsds[0]]  (lines 586-595)
CoarsestGroup(groups) ==
    LET sorted_gsds == SortedSeq(DOMAIN groups)
    IN  groups[sorted_gsds[Len(sorted_gsds)]]
FinestGroup(groups) ==
    LET sorted_gsds == SortedSeq(DOMAIN groups)
    IN  groups[sorted_gsds[1]]

\* Does raster r hold a sample for world pixel p, and which.
Covers(r, p) == r.exists /\ p \in r.x0..(r.x0 + r.xsize - 1)
Sample(r, p) == r.data[p - r.x0]

\* gdal.BuildVRT composes the sources in list order: a source is drawn over
\* what the earlier sources left, except where it holds its nodata value.
RECURSIVE CompositeFrom(_, _, _, _, _)
CompositeFrom(files, paths, p, i, acc) ==
    IF i > Len(paths) THEN acc
    ELSE LET r == files[paths[i]]
         IN  IF Covers(r, p) /\ Sample(r, p) # r.nodata
             THEN CompositeFrom(files, paths, p, i + 1, Sample(r, p))
             ELSE CompositeFrom(files, paths, p, i + 1, acc)

RECURSIVE CompositeFirstFrom(_, _, _, _, _)
CompositeFirstFrom(files, paths, p, i, acc) ==
    IF i < 1 THEN acc
    ELSE LET r == files[paths[i]]
         IN  IF Covers(r, p) /\ Sample(r, p) # r.nodata
             THEN CompositeFirstFrom(files, paths, p, i - 1, Sample(r, p))
             ELSE CompositeFirstFrom(files, paths, p, i - 1, acc)

CompositeFirstWins(files, paths, p) ==
    CompositeFirstFrom(files, paths, p, Len(paths), TileNodata)
Composite(files, paths, p) == CompositeFrom(files, paths, p, 1, TileNodata)

SetMin(S) == CHOOSE a \in S : \A b \in S : a <= b
SetMax(S) == CHOOSE a \in S : \A b \in S : a >= b

\* gdal.BuildVRT(vrt_path, tile_paths, options)  (lines 598-606): the extent
\* is the union of the members' extents.
BuildVRT(files, paths) ==
    LET lo == SetMin({files[paths[i]].x0 : i \in 1..Len(paths)})
        hi == SetMax({files[paths[i]].x0 + files[paths[i]].xsize - 1 :
                        i \in 1..Len(paths)})
    IN  [exists |-> TRUE, x0 |-> lo, xsize |-> hi - lo + 1,
         nodata |-> TileNodata,
         data |-> [j \in 0..(hi - lo) |-> Composite(files, paths, lo + j)]]

\* gdal.Warp(mosaic_path, vrt_path, options)  (lines 612-647): the virtual
\* mosaic resampled onto the output grid, limited to outputBounds when an AOI
\* layer is given; a pixel outside the virtual mosaic is nodata.
Warp(v, aoi) ==
    LET lo == IF aoi.exists THEN aoi.lo ELSE v.x0
        hi == IF aoi.exists THEN aoi.hi ELSE v.x0 + v.xsize - 1
    IN  [exists |-> TRUE, x0 |-> lo, xsize |-> hi - lo + 1, ysize |-> 1,
         nodata |-> v.nodata,
         band |-> [cell \in (0..(hi - lo)) \X {0} |->
                     IF Covers(v, lo + cell[1])
                     THEN Rat(Sample(v, lo + cell[1]))
                     ELSE Rat(v.nodata)]]

\* The paths of the files create_mosaic works on.  The tile of record k is
\* stored at path k, in tiles_folder (lines 210, 529); mosaic_path and
\* vrt_path lie in output_folder, outside tiles_folder (lines 209, 598).
MosaicPath == MaxTiles + 1
VrtPath == MaxTiles + 2

\* if os.path.exists(vrt_path): os.remove(vrt_path)  (lines 650-651): the
\* paths the clean-up removes, out of vrt_path and the member tiles.
RemoveInputs(v_path, t_paths) ==
    {v_path} \cup {t_paths[i] : i \in 1..Len(t_paths)}
RemovedPaths(v_path, t_paths) == {v_path}

\* The file stored at path once the paths of removed are deleted.
AfterRemove(file, path, removed) ==
    IF path \in removed THEN NoRaster ELSE file

\* The bounding box of the AOI layer, in pixels of the common grid.
AoiLayer == [exists |-> TRUE, lo |-> 1, hi |-> 2]

\* Nothing has been reported about the mosaic.
NoInfo == [exists |-> FALSE]

MosaicIdle ==
    /\ results = <<>>
    /\ tile_files = <<>>
    /\ aoi_layer = NoLayer
    /\ convert_to_feet = FALSE
    /\ res_i = 1
    /\ tiles_by_gsd = <<>>
    /\ tile_paths = <<>>
    /\ vrt = NoRaster
    /\ mosaic = NoRaster
    /\ mosaic_pc = "idle"
    /\ mosaic_faults = {}
    /\ mosaic_info = NoInfo
    /\ mosaic_ops = <<>>

\* The records download_tiles can return for n tiles: the tile of record k is
\* stored at path k; a failed download has no path and no file.
InitMosaic ==
    /\ \E n \in 0..MaxTiles :
         \E gsds \in [1..n -> 1..MaxGsd],
            sts \in [1..n -> Statuses],
            offs \in [1..n -> 0..MaxShift],
            nds \in [1..n -> BOOLEAN] :
            /\ \A k \in 1..n : sts[k] = "error" => (offs[k] = 0 /\ ~nds[k])
            /\ results = [k \in 1..n |->
                            ResultRecord(gsds[k],
                                         IF sts[k] = "error" THEN NoPath ELSE k,
                                         sts[k])]
            /\ tile_files = [k \in 1..n |->
                               IF sts[k] = "error" THEN NoRaster
                               ELSE TileRaster(k, offs[k], nds[k])]
    /\ aoi_layer \in {NoLayer, AoiLayer}
    /\ convert_to_feet \in BOOLEAN
    /\ res_i = 1
    /\ tiles_by_gsd = <<>>
    /\ tile_paths = <<>>
    /\ vrt = NoRaster
    /\ mosaic = NoRaster
    /\ mosaic_pc = "group"
    /\ mosaic_faults = {}
    /\ mosaic_info = NoInfo
    /\ mosaic_ops = <<>>

\* for result in results: ...  (lines 575-580), one record per step.
GroupTile ==
    /\ mosaic_pc = "group"
    /\ res_i <= Len(results)
    /\ tiles_by_gsd' = GroupAdd(tiles_by_gsd, results[res_i])
    /\ res_i' = res_i + 1
    /\ UNCHANGED <<results, tile_files, aoi_layer, convert_to_feet,
                   tile_paths, vrt, mosaic, mosaic_pc>>
    /\ UNCHANGED <<mosaic_faults, mosaic_info, mosaic_ops>>
    /\ UNCHANGED <<convVars, cutVars, lidarVars, profVars, femaVars, pageVars, editVars, soilVars>>

\* if not tiles_by_gsd: raise QgsProcessingException  (lines 582-583)
HasGroups(groups) == DOMAIN groups # {}

GroupsEmpty ==
    /\ mosaic_pc = "group"
    /\ res_i > Len(results)
    /\ ~HasGroups(tiles_by_gsd)
    /\ mosaic_pc' = "failed"
    /\ UNCHANGED <<results, tile_files, aoi_layer, convert_to_feet, res_i,
                   tiles_by_gsd, tile_paths, vrt, mosaic>>
    /\ UNCHANGED <<mosaic_faults, mosaic_info, mosaic_ops>>
    /\ UNCHANGED <<convVars, cutVars, lidarVars, profVars, femaVars, pageVars, editVars, soilVars>>

\* sorted_gsds = sorted(...); tile_paths = tiles_by_gsd[sorted_gsds[0]]
\* (lines 586-595)
SelectFinest ==
    /\ mosaic_pc = "group"
    /\ res_i > Len(results)
    /\ HasGroups(tiles_by_gsd)
    /\ tile_paths' = FinestGroup(tiles_by_gsd)
    /\ mosaic_pc' = "build_vrt"
    /\ UNCHANGED <<results, tile_files, aoi_layer, convert_to_feet, res_i,
                   tiles_by_gsd, vrt, mosaic>>
    /\ UNCHANGED <<mosaic_faults, mosaic_info, mosaic_ops>>
    /\ UNCHANGED <<convVars, cutVars, lidarVars, profVars, femaVars, pageVars, editVars, soilVars>>

\* vrt_ds = gdal.BuildVRT(vrt_path, tile_paths, options)  (lines 598-606)
BuildVirtualMosaic ==
    /\ mosaic_pc = "build_vrt"
    /\ vrt' = BuildVRT(tile_files, tile_paths)
    /\ mosaic_pc' = "warp"
    /\ UNCHANGED <<results, tile_files, aoi_layer, convert_to_feet, res_i,
                   tiles_by_gsd, tile_paths, mosaic>>
    /\ UNCHANGED <<mosaic_faults, mosaic_info, mosaic_ops>>
    /\ UNCHANGED <<convVars, cutVars, lidarVars, profVars, femaVars, pageVars, editVars, soilVars>>

\* gdal.Warp(mosaic_path, vrt_path, options=warp_options)  (lines 609-647)
WarpMosaic ==
    /\ mosaic_pc = "warp"
    /\ vrt.exists
    /\ mosaic' = Warp(vrt, aoi_layer)
    /\ mosaic_ops' = Append(mosaic_ops, "warp")
    /\ mosaic_pc' = "cleanup"
    /\ UNCHANGED <<results, tile_files, aoi_layer, convert_to_feet, res_i,
                   tiles_by_gsd, tile_paths, vrt>>
    /\ UNCHANGED <<mosaic_faults, mosaic_info>>
    /\ UNCHANGED <<convVars, cutVars, lidarVars, profVars, femaVars, pageVars, editVars, soilVars>>

\* os.remove(vrt_path)  (lines 650-651)
CleanupVRT ==
    /\ mosaic_pc = "cleanup"
    /\ LET removed == RemovedPaths(VrtPath, tile_paths)
       IN  /\ vrt' = AfterRemove(vrt, VrtPath, removed)
           /\ mosaic' = AfterRemove(mosaic, MosaicPath, removed)
           /\ tile_files' = [k \in DOMAIN tile_files |->
                                AfterRemove(tile_files[k], k, removed)]
    /\ mosaic_pc' = "convert"
    /\ UNCHANGED <<results, aoi_layer, convert_to_feet, res_i,
                   tiles_by_gsd, tile_paths>>
    /\ UNCHANGED <<mosaic_faults, mosaic_info, mosaic_ops>>
    /\ UNCHANGED <<convVars, cutVars, lidarVars, profVars, femaVars, pageVars, editVars, soilVars>>

\* A conversion that runs whatever the option says.
ConvertAlways(requested) == TRUE
\* if convert_to_feet:  (line 654)
ConvertRequested(requested) == requested

\* if convert_to_feet: self.convert_dem_to_feet(mosaic_path, feedback)
\* (lines 654-656)
MosaicConvert ==
    /\ mosaic_pc = "convert"
    /\ convert_to_feet => mosaic.exists
    /\ mosaic' = IF ConvertRequested(convert_to_feet)
                 THEN [mosaic EXCEPT !.band =
                         ConvertFrom(mosaic.band, mosaic.xsize, mosaic.ysize, 0, 0)]
                 ELSE mosaic
    /\ mosaic_ops' = IF ConvertRequested(convert_to_feet)
                     THEN Append(mosaic_ops, "convert") ELSE mosaic_ops
    /\ mosaic_pc' = "info"
    /\ UNCHANGED <<results, tile_files, aoi_layer, convert_to_feet, res_i,
                   tiles_by_gsd, tile_paths, vrt>>
    /\ UNCHANGED <<mosaic_faults, mosaic_info>>
    /\ UNCHANGED <<convVars, cutVars, lidarVars, profVars, femaVars, pageVars, editVars, soilVars>>

\* ds = gdal.Open(mosaic_path); if ds: the 'Mosaic created successfully!'
\* report with the elevation range in 'ft' or 'm'  (lines 659-677)
MosaicInfo ==
    /\ mosaic_pc = "info"
    /\ mosaic_info' = IF mosaic.exists
                      THEN [exists |-> TRUE,
                            units |-> IF convert_to_feet THEN "ft" ELSE "m"]
                      ELSE mosaic_info
    /\ mosaic_pc' = "done"
    /\ UNCHANGED <<results, tile_files, aoi_layer, convert_to_feet, res_i,
                   tiles_by_gsd, tile_paths, vrt, mosaic>>
    /\ UNCHANGED <<mosaic_faults, mosaic_ops>>
    /\ UNCHANGED <<convVars, cutVars, lidarVars, profVars, femaVars, pageVars, editVars, soilVars>>

\* The output raster a run of the tool has left at mosaic_path.
StaleMosaic ==
    [exists |-> TRUE, x0 |-> 0, xsize |-> 1, ysize |-> 1, nodata |-> TileNodata,
     band |-> [cell \in {<<0, 0>>} |-> Rat(7)]]

\* create_mosaic called on the records of a download, in an output folder
\* that may hold the output raster of an earlier run.
InitMosaicIO ==
    /\ \E n \in 0..MaxTiles :
         \E gsds \in [1..n -> 1..MaxGsd], sts \in [1..n -> Statuses] :
            /\ results = [k \in 1..n |->
                            ResultRecord(gsds[k],
                                         IF sts[k] = "error" THEN NoPath ELSE k,
                                         sts[k])]
            /\ tile_files = [k \in 1..n |->
                               IF sts[k] = "error" THEN NoRaster
                               ELSE TileRaster(k, 0, FALSE)]
    /\ aoi_layer \in {NoLayer, AoiLayer}
    /\ convert_to_feet \in BOOLEAN
    /\ res_i = 1
    /\ tiles_by_gsd = <<>>
    /\ tile_paths = <<>>
    /\ vrt = NoRaster
    /\ mosaic \in {NoRaster, StaleMosaic}
    /\ mosaic_pc = "group"
    /\ mosaic_faults = {}
    /\ mosaic_info = NoInfo
    /\ mosaic_ops = <<>>

\* gdal.BuildVRT returns None (a member cannot be opened, vrt_path cannot be
\* written): vrt_ds is dropped without a look  (lines 605-606).
BuildVRTFails ==
    /\ mosaic_pc = "build_vrt"
    /\ mosaic_faults' = mosaic_faults \cup {"BuildVRT"}
    /\ mosaic_pc' = "warp"
    /\ UNCHANGED <<results, tile_files, aoi_layer, convert_to_feet, res_i,
                   tiles_by_gsd, tile_paths, vrt, mosaic, mosaic_info,
                   mosaic_ops>>
    /\ UNCHANGED <<convVars, cutVars, lidarVars, profVars, femaVars, pageVars, editVars, soilVars>>

\* gdal.Warp returns None (no virtual mosaic to read, the destination cannot
\* be created): nothing is written to mosaic_path and the result of the call
\* is not looked at  (line 647).
WarpFails ==
    /\ mosaic_pc = "warp"
    /\ mosaic_faults' = mosaic_faults \cup {"Warp"}
    /\ mosaic_pc' = "cleanup"
    /\ UNCHANGED <<results, tile_files, aoi_layer, convert_to_feet, res_i,
                   tiles_by_gsd, tile_paths, vrt, mosaic, mosaic_info,
                   mosaic_ops>>
    /\ UNCHANGED <<convVars, cutVars, lidarVars, profVars, femaVars, pageVars, editVars, soilVars>>

\* convert_dem_to_feet: gdal.Open(raster_path, gdal.GA_Update) returns None
\* (no file, or a file that cannot be opened for update): reportError and
\* return  (lines 654-656, 1029-1032).
MosaicConvertOpenFails ==
    /\ mosaic_pc = "convert"
    /\ convert_to_feet
    /\ mosaic_faults' = mosaic_faults \cup {"Open"}
    /\ mosaic_pc' = "info"
    /\ UNCHANGED <<results, tile_files, aoi_layer, convert_to_feet, res_i,
                   tiles_by_gsd, tile_paths, vrt, mosaic, mosaic_info,
                   mosaic_ops>>
    /\ UNCHANGED <<convVars, cutVars, lidarVars, profVars, femaVars, pageVars, editVars, soilVars>>

NextMosaicIO ==
    \/ GroupTile
    \/ GroupsEmpty
    \/ SelectFinest
    \/ BuildVirtualMosaic
    \/ BuildVRTFails
    \/ WarpMosaic
    \/ WarpFails
    \/ CleanupVRT
    \/ MosaicConvert
    \/ MosaicConvertOpenFails
    \/ MosaicInfo

NextMosaic ==
    \/ GroupTile
    \/ GroupsEmpty
    \/ SelectFinest
    \/ BuildVirtualMosaic
    \/ WarpMosaic
    \/ CleanupVRT
    \/ MosaicConvert
    \/ MosaicInfo


(***************************************************************************)
(* Cut/fill tool: DEMComparisonTool.processAlgorithm                       *)
(* A raster is [crs, gt0, gt1, gt3, gt5, xsize, ysize, data]: gt0, gt3 the *)
(* upper left corner, gt1 the pixel width, gt5 the (negative) pixel        *)
(* height, data[<<col, row>>] the sample of a cell.                        *)
(***************************************************************************)
MaxOrigin == 1
MaxPixel == 2
MaxSize == 2
MaxPattern == 2

\* / 27: cubic feet to cubic yards (lines 76-77)
CubicYard == 27

CrsNames == {"EPSG:2223", "EPSG:4326"}
NoArray == [exists |-> FALSE]
NoGrid == [exists |-> FALSE]
NoVolumes == [exists |-> FALSE]

\* The elevation pattern k at cell (c, r): flat 0, flat 1, then slopes.
ElevPattern(k, c, r) == IF k <= 1 THEN k ELSE (k - 2) + k * c + 3 * r

DemRaster(crs, ox, oy, px, xs, ys, k) ==
    [crs |-> crs, gt0 |-> ox, gt1 |-> px, gt3 |-> oy, gt5 |-> 0 - px,
     xsize |-> xs, ysize |-> ys,
     data |-> [cell \in (0..(xs - 1)) \X (0..(ys - 1)) |->
                 ElevPattern(k, cell[1], cell[2])]]

\* The sentinel a DEM declares for its void cells (band.GetNoDataValue());
\* NoCell: the raster has no void cell.
DemNodata == 0 - 9999
NoCell == <<0 - 1, 0 - 1>>
NoNodata == [exists |-> FALSE]

\* The raster DemRaster(...) with the nodata sentinel declared and stored at
\* the cell void.
DemRasterVoid(crs, ox, oy, px, xs, ys, k, void) ==
    LET r == DemRaster(crs, ox, oy, px, xs, ys, k)
    IN  [crs |-> r.crs, gt0 |-> r.gt0, gt1 |-> r.gt1, gt3 |-> r.gt3,
         gt5 |-> r.gt5, xsize |-> r.xsize, ysize |-> r.ysize,
         nodata |-> DemNodata,
         data |-> [cell \in DOMAIN r.data |->
                     IF cell = void THEN DemNodata ELSE r.data[cell]]]

\* A size taken as a magnitude: the quotient without its sign.
TruncDivAbs(a, b) == Abs(a) \div Abs(b)
\* Python's int(a / b): the quotient truncated towards zero.
TruncDiv(a, b) ==
    IF (a >= 0) = (b > 0) THEN Abs(a) \div Abs(b) ELSE 0 - (Abs(a) \div Abs(b))

Min2(a, b) == IF a <= b THEN a ELSE b
Max2(a, b) == IF a >= b THEN a ELSE b

\* if existing_dem.crs() != proposed_dem.crs()  (line 24)
CrsAlwaysMatch(e, p) == TRUE
CrsMatch(e, p) == e.crs = p.crs

\* Lines 39-49: the common grid of the two rasters.
CommonGrid(e, p) ==
    LET pixel_size == Min2(Abs(e.gt1), Abs(p.gt1))
        x_min == Max2(e.gt0, p.gt0)
        y_max == Min2(e.gt3, p.gt3)
        x_max == Min2(e.gt0 + e.gt1 * e.xsize, p.gt0 + p.gt1 * p.xsize)
        y_min == Max2(e.gt3 + e.gt5 * e.ysize, p.gt3 + p.gt5 * p.ysize)
    IN  [exists |-> TRUE, pixel_size |-> pixel_size,
         x_min |-> x_min, y_max |-> y_max, x_max |-> x_max, y_min |-> y_min,
         width |-> TruncDiv(x_max - x_min, pixel_size),
         height |-> TruncDiv(y_max - y_min, pixel_size)]

\* driver.Create(output_path, width, height, 1, GDT_Float32)  (line 53):
\* gdal makes no raster whose width or height is not positive; the call
\* returns None.
CreateOk(width, height) == width >= 1 /\ height >= 1

\* band.ReadAsArray(xoff, yoff, width, height)  (lines 58-65): the samples
\* of the window, or None when the window leaves the raster.
ReadAsArray(r, xoff, yoff, width, height) ==
    IF /\ xoff >= 0 /\ yoff >= 0 /\ width >= 1 /\ height >= 1
       /\ xoff + width <= r.xsize /\ yoff + height <= r.ysize
    THEN [exists |-> TRUE,
          data |-> [cell \in (0..(width - 1)) \X (0..(height - 1)) |->
                      r.data[<<xoff + cell[1], yoff + cell[2]>>]]]
    ELSE NoArray

\* The offsets of the window read from raster r  (lines 59-60, 63-64).
XOff(r, g) == TruncDiv(g.x_min - r.gt0, r.gt1)
YOff(r, g) == TruncDiv(g.y_max - r.gt3, r.gt5)

\* difference = proposed_data - existing_data  (line 68)
SumArrays(pd, ed) == [cell \in DOMAIN pd |-> pd[cell] + ed[cell]]
Subtract(pd, ed) == [cell \in DOMAIN pd |-> pd[cell] - ed[cell]]

\* np.sum(difference[difference < 0]) and np.sum(difference[difference > 0])
RECURSIVE SumOver(_, _)
SumOver(d, cells) ==
    IF cells = {} THEN 0
    ELSE LET c == CHOOSE c \in cells : TRUE
         IN  d[c] + SumOver(d, cells \ {c})
SumNegative(d) == SumOver(d, {c \in DOMAIN d : d[c] < 0})
SumPositive(d) == SumOver(d, {c \in DOMAIN d : d[c] > 0})

\* cell_area = pixel_size * pixel_size  (line 75)
CellLength(pixel_size) == pixel_size
CellArea(pixel_size) == pixel_size * pixel_size

\* Lines 75-78: the three volumes, in cubic yards.
NetVolume(fill, cut) == RatAdd(fill, cut)
Volumes(d, pixel_size) ==
    LET cell_area == CellArea(pixel_size)
        cut_volume == RatNorm(<<SumNegative(d) * cell_area, CubicYard>>)
        fill_volume == RatNorm(<<SumPositive(d) * cell_area, CubicYard>>)
    IN  [exists |-> TRUE, cut_volume |-> cut_volume,
         fill_volume |-> fill_volume,
         net_volume |-> NetVolume(fill_volume, cut_volume)]

\* f"{v:.2f}": v rounded to the nearest hundredth, as a count of hundredths;
\* a value half way between two hundredths goes to the even one (Python
\* rounds the stored binary value: 0.125 gives '0.12', 0.625 gives '0.62').
\* The volumes of the model are multiples of 1/27 and never lie half way.
Hundredths(v) ==
    LET q == (100 * v[1]) \div v[2]
        r == 100 * v[1] - q * v[2]
    IN  IF 2 * r < v[2] THEN q
        ELSE IF 2 * r > v[2] THEN q + 1
        ELSE IF q % 2 = 0 THEN q ELSE q + 1
\* The text f"{v:.2f}" prints: the hundredths, and the minus sign that a
\* negative value keeps when it rounds to zero ('-0.00').
TwoDecimals(v) ==
    [hundredths |-> Hundredths(v),
     minus_zero |-> v[1] < 0 /\ Hundredths(v) = 0]

CutIdle ==
    /\ existing_dem = NoRaster
    /\ proposed_dem = NoRaster
    /\ grid = NoGrid
    /\ output_ds = NoRaster
    /\ existing_data = NoArray
    /\ proposed_data = NoArray
    /\ difference = NoArray
    /\ volumes = NoVolumes
    /\ reported = <<>>
    /\ cut_pc = "idle"

\* An origin so far out that a raster placed there shares no point with any
\* raster at the origin, whatever the pixel size and the size of the two.
FarOrigin == MaxPixel * MaxSize + MaxOrigin + 1
Origins == ((0 - MaxOrigin)..MaxOrigin) \cup {FarOrigin}

\* The existing raster has its upper left corner at the origin; the proposed
\* raster is shifted against it by up to MaxOrigin in each direction, where
\* the two overlap or touch, or lies at FarOrigin, apart from it.
InitCutFill ==
    /\ \E px \in 1..MaxPixel, xs \in 1..MaxSize, ys \in 1..MaxSize,
          k \in 0..MaxPattern :
         existing_dem = DemRaster("EPSG:2223", 0, 0, px, xs, ys, k)
    /\ \E crs \in CrsNames, ox \in Origins, oy \in Origins, px \in 1..MaxPixel,
          xs \in 1..MaxSize, ys \in 1..MaxSize, k \in 0..MaxPattern :
         proposed_dem = DemRaster(crs, ox, oy, px, xs, ys, k)
    /\ grid = NoGrid
    /\ output_ds = NoRaster
    /\ existing_data = NoArray
    /\ proposed_data = NoArray
    /\ difference = NoArray
    /\ volumes = NoVolumes
    /\ reported = <<>>
    /\ cut_pc = "check_crs"

\* Two rasters that declare a nodata value, each with at most one void cell:
\* the existing one flat, the proposed one sloping, shifted to the east by up
\* to MaxOrigin.
InitCutFillNodata ==
    /\ \E px \in 1..MaxPixel, xs \in 1..MaxSize, ys \in 1..MaxSize :
         \E void \in ((0..(xs - 1)) \X (0..(ys - 1))) \cup {NoCell} :
            existing_dem = DemRasterVoid("EPSG:2223", 0, 0, px, xs, ys, 1, void)
    /\ \E crs \in CrsNames, ox \in 0..MaxOrigin, px \in 1..MaxPixel,
          xs \in 1..MaxSize, ys \in 1..MaxSize :
         \E void \in ((0..(xs - 1)) \X (0..(ys - 1))) \cup {NoCell} :
            proposed_dem = DemRasterVoid(crs, ox, 0, px, xs, ys, 2, void)
    /\ grid = NoGrid
    /\ output_ds = NoRaster
    /\ existing_data = NoArray
    /\ proposed_data = NoArray
    /\ difference = NoArray
    /\ volumes = NoVolumes
    /\ reported = <<>>
    /\ cut_pc = "check_crs"

\* Lines 24-25: the CRS check raises QgsProcessingException.
CrsMismatch ==
    /\ cut_pc = "check_crs"
    /\ ~CrsMatch(existing_dem, proposed_dem)
    /\ cut_pc' = "crs_error"
    /\ UNCHANGED <<existing_dem, proposed_dem, grid, output_ds, existing_data,
                   proposed_data, difference, volumes, reported>>
    /\ UNCHANGED <<convVars, mosaicVars, lidarVars, profVars, femaVars, pageVars, editVars, soilVars>>

\* Lines 28-49: open both rasters and compute the common grid.
ComputeGrid ==
    /\ cut_pc = "check_crs"
    /\ CrsMatch(existing_dem, proposed_dem)
    /\ grid' = CommonGrid(existing_dem, proposed_dem)
    /\ cut_pc' = "create"
    /\ UNCHANGED <<existing_dem, proposed_dem, output_ds, existing_data,
                   proposed_data, difference, volumes, reported>>
    /\ UNCHANGED <<convVars, mosaicVars, lidarVars, profVars, femaVars, pageVars, editVars, soilVars>>

\* Lines 52-55: create the output raster (all samples 0) and set its
\* geotransform; no nodata value is ever set on its band.
CreateOutput ==
    /\ cut_pc = "create"
    /\ CreateOk(grid.width, grid.height)
    /\ output_ds' = [exists |-> TRUE, gt0 |-> grid.x_min,
                     gt1 |-> grid.pixel_size, gt3 |-> grid.y_max,
                     gt5 |-> 0 - grid.pixel_size,
                     xsize |-> grid.width, ysize |-> grid.height,
                     nodata |-> NoNodata,
                     data |-> [cell \in (0..(grid.width - 1)) \X
                                        (0..(grid.height - 1)) |-> 0]]
    /\ cut_pc' = "read"
    /\ UNCHANGED <<existing_dem, proposed_dem, grid, existing_data,
                   proposed_data, difference, volumes, reported>>
    /\ UNCHANGED <<convVars, mosaicVars, lidarVars, profVars, femaVars, pageVars, editVars, soilVars>>

\* Lines 53-54: driver.Create returned None, output_ds.SetGeoTransform raises.
CreateFails ==
    /\ cut_pc = "create"
    /\ ~CreateOk(grid.width, grid.height)
    /\ cut_pc' = "error"
    /\ UNCHANGED <<existing_dem, proposed_dem, grid, output_ds, existing_data,
                   proposed_data, difference, volumes, reported>>
    /\ UNCHANGED <<convVars, mosaicVars, lidarVars, profVars, femaVars, pageVars, editVars, soilVars>>

\* Lines 58-65: read the window of each input raster.
ReadInputs ==
    /\ cut_pc = "read"
    /\ existing_data' = ReadAsArray(existing_dem, XOff(existing_dem, grid),
                                    YOff(existing_dem, grid),
                                    grid.width, grid.height)
    /\ proposed_data' = ReadAsArray(proposed_dem, XOff(proposed_dem, grid),
                                    YOff(proposed_dem, grid),
                                    grid.width, grid.height)
    /\ cut_pc' = "difference"
    /\ UNCHANGED <<existing_dem, proposed_dem, grid, output_ds, difference,
                   volumes, reported>>
    /\ UNCHANGED <<convVars, mosaicVars, lidarVars, profVars, femaVars, pageVars, editVars, soilVars>>

\* Lines 68-72: the difference, written to the output raster.
WriteDifference ==
    /\ cut_pc = "difference"
    /\ existing_data.exists /\ proposed_data.exists
    /\ difference' = [exists |-> TRUE,
                      data |-> Subtract(proposed_data.data, existing_data.data)]
    /\ output_ds' = [output_ds EXCEPT !.data = difference'.data]
    /\ cut_pc' = "volumes"
    /\ UNCHANGED <<existing_dem, proposed_dem, grid, existing_data,
                   proposed_data, volumes, reported>>
    /\ UNCHANGED <<convVars, mosaicVars, lidarVars, profVars, femaVars, pageVars, editVars, soilVars>>

\* Line 68: a window that could not be read is None, the subtraction raises.
DifferenceFails ==
    /\ cut_pc = "difference"
    /\ ~(existing_data.exists /\ proposed_data.exists)
    /\ cut_pc' = "error"
    /\ UNCHANGED <<existing_dem, proposed_dem, grid, output_ds, existing_data,
                   proposed_data, difference, volumes, reported>>
    /\ UNCHANGED <<convVars, mosaicVars, lidarVars, profVars, femaVars, pageVars, editVars, soilVars>>

\* Lines 75-78.
ComputeVolumes ==
    /\ cut_pc = "volumes"
    /\ volumes' = Volumes(difference.data, grid.pixel_size)
    /\ cut_pc' = "report"
    /\ UNCHANGED <<existing_dem, proposed_dem, grid, output_ds, existing_data,
                   proposed_data, difference, reported>>
    /\ UNCHANGED <<convVars, mosaicVars, lidarVars, profVars, femaVars, pageVars, editVars, soilVars>>

\* Lines 80-89: the three lines pushed to the feedback sink, in hundredths.
Report ==
    /\ cut_pc = "report"
    /\ reported' = <<TwoDecimals(RatAbs(volumes.cut_volume)),
                     TwoDecimals(volumes.fill_volume),
                     TwoDecimals(volumes.net_volume)>>
    /\ cut_pc' = "done"
    /\ UNCHANGED <<existing_dem, proposed_dem, grid, output_ds, existing_data,
                   proposed_data, difference, volumes>>
    /\ UNCHANGED <<convVars, mosaicVars, lidarVars, profVars, femaVars, pageVars, editVars, soilVars>>

NextCutFill ==
    \/ CrsMismatch
    \/ ComputeGrid
    \/ CreateOutput
    \/ CreateFails
    \/ ReadInputs
    \/ WriteDifference
    \/ DifferenceFails
    \/ ComputeVolumes
    \/ Report

ConvIdle ==
    /\ conv_ds = NoRaster
    /\ conv_band = <<>>
    /\ conv_x = 0
    /\ conv_y = 0
    /\ conv_pc = "idle"
    /\ conv_io = {}
    /\ conv_windows = EmptyBag

InitConvert ==
    /\ \E xs \in ConvSizes, ys \in ConvSizes, nd \in Sentinels :
         \E cells \in SUBSET TrackedCells(xs, ys) :
            /\ Cardinality(cells) <= MaxNodata
            /\ conv_ds = [exists |-> TRUE, xsize |-> xs, ysize |-> ys,
                          nodata |-> nd, nodata_cells |-> cells]
            /\ conv_band = [cell \in TrackedCells(xs, ys) |->
                              InputValue([nodata |-> nd, nodata_cells |-> cells], cell)]
    /\ conv_x = 0
    /\ conv_y = 0
    /\ conv_pc = "open"
    /\ conv_io = {}
    /\ conv_windows = EmptyBag

\* ds = gdal.Open(raster_path, gdal.GA_Update) succeeds (lines 1029-1041).
ConvOpen ==
    /\ conv_pc = "open"
    /\ conv_pc' = "loop"
    /\ UNCHANGED <<conv_ds, conv_band, conv_x, conv_y, conv_io, conv_windows>>
    /\ UNCHANGED <<mosaicVars, cutVars, lidarVars, profVars, femaVars, pageVars, editVars, soilVars>>

\* gdal.Open returns None: reportError and return (lines 1030-1032).
ConvOpenFails ==
    /\ conv_pc = "open"
    /\ conv_pc' = "open_failed"
    /\ UNCHANGED <<conv_ds, conv_band, conv_x, conv_y, conv_io, conv_windows>>
    /\ UNCHANGED <<mosaicVars, cutVars, lidarVars, profVars, femaVars, pageVars, editVars, soilVars>>

\* One iteration of the inner loop (lines 1043-1065): the window at
\* (conv_x, conv_y), then the next x, or the next y when the row is done.
ConvertChunk ==
    /\ conv_pc = "loop"
    /\ LET rows == ChunkLen(conv_y, conv_ds.ysize)
           cols == ChunkLen(conv_x, conv_ds.xsize)
       IN  /\ conv_band' = ConvertWindow(conv_band, conv_x, conv_y, cols, rows)
           /\ conv_windows' = conv_windows (+) SetToBag({<<conv_x, conv_y, cols, rows>>})
    /\ IF conv_x + chunk_size < conv_ds.xsize
       THEN /\ conv_x' = conv_x + chunk_size
            /\ UNCHANGED <<conv_y, conv_pc>>
       ELSE /\ conv_x' = 0
            /\ conv_y' = conv_y + chunk_size
            /\ conv_pc' = IF conv_y + chunk_size < conv_ds.ysize
                          THEN "loop" ELSE "flush"
    /\ UNCHANGED <<conv_ds, conv_io>>
    /\ UNCHANGED <<mosaicVars, cutVars, lidarVars, profVars, femaVars, pageVars, editVars, soilVars>>

\* band.FlushCache(); ds = None; pushInfo (lines 1067-1071).
ConvFlush ==
    /\ conv_pc = "flush"
    /\ conv_pc' = "done"
    /\ UNCHANGED <<conv_ds, conv_band, conv_x, conv_y, conv_io, conv_windows>>
    /\ UNCHANGED <<mosaicVars, cutVars, lidarVars, profVars, femaVars, pageVars, editVars, soilVars>>

\* One iteration of the inner loop in which the raster I/O fails: ReadAsArray
\* returns None and the window is skipped (line 1060), or WriteArray reports
\* an error that is not looked at (line 1065).  The samples of the window
\* stay as they were and the loop goes on with the next window.
ConvWindowFails ==
    /\ conv_pc = "loop"
    /\ conv_io' = conv_io \cup {<<conv_x, conv_y>>}
    /\ conv_windows' = conv_windows (+)
          SetToBag({<<conv_x, conv_y, ChunkLen(conv_x, conv_ds.xsize),
                      ChunkLen(conv_y, conv_ds.ysize)>>})
    /\ IF conv_x + chunk_size < conv_ds.xsize
       THEN /\ conv_x' = conv_x + chunk_size
            /\ UNCHANGED <<conv_y, conv_pc>>
       ELSE /\ conv_x' = 0
            /\ conv_y' = conv_y + chunk_size
            /\ conv_pc' = IF conv_y + chunk_size < conv_ds.ysize
                          THEN "loop" ELSE "flush"
    /\ UNCHANGED <<conv_ds, conv_band>>
    /\ UNCHANGED <<mosaicVars, cutVars, lidarVars, profVars, femaVars, pageVars, editVars, soilVars>>

\* The pass of the specification run a second time over the same raster
\* with the reciprocal factor 1 / f.  convert_dem_to_feet has no factor
\* parameter and the code has no reciprocal constant: it only ever
\* multiplies by METERS_TO_FEET (line 1026).  The second pass is the
\* specification's pass ("multiply every valid (non-nodata) sample of a
\* raster band by a fixed scalar factor", nodata cells left untouched), given
\* the window loop of the first.
FEET_TO_METERS == <<FeetDen, FeetNum>>

\* a * b with the common factors divided out before multiplying.
RatMulReduced(a, b) ==
    LET g1 == Gcd(Abs(a[1]), b[2])
        g2 == Gcd(Abs(b[1]), a[2])
    IN  RatNorm(<<(a[1] \div g1) * (b[1] \div g2), (a[2] \div g2) * (b[2] \div g1)>>)

\* The window of the specification's pass with factor = 1 / METERS_TO_FEET:
\* every valid sample is multiplied by the factor, a sample that holds the
\* nodata value the band declares is left untouched.
InverseWindow(b, nodata, x, y, cols, rows) ==
    [cell \in DOMAIN b |->
        IF /\ cell[1] \in x..(x + cols - 1)
           /\ cell[2] \in y..(y + rows - 1)
           /\ ~RatEq(b[cell], Rat(nodata))
        THEN RatMulReduced(b[cell], FEET_TO_METERS)
        ELSE b[cell]]

\* The second pass opens the raster the first pass has closed.
InverseOpen ==
    /\ conv_pc = "done"
    /\ conv_pc' = "inverse_loop"
    /\ conv_x' = 0
    /\ conv_y' = 0
    /\ conv_windows' = EmptyBag
    /\ UNCHANGED <<conv_ds, conv_band, conv_io>>
    /\ UNCHANGED <<mosaicVars, cutVars, lidarVars, profVars, femaVars, pageVars, editVars, soilVars>>

\* One iteration of the inner loop of the second pass.
InverseChunk ==
    /\ conv_pc = "inverse_loop"
    /\ LET rows == ChunkLen(conv_y, conv_ds.ysize)
           cols == ChunkLen(conv_x, conv_ds.xsize)
       IN  /\ conv_band' = InverseWindow(conv_band, conv_ds.nodata, conv_x, conv_y,
                                          cols, rows)
           /\ conv_windows' = conv_windows (+) SetToBag({<<conv_x, conv_y, cols, rows>>})
    /\ IF conv_x + chunk_size < conv_ds.xsize
       THEN /\ conv_x' = conv_x + chunk_size
            /\ UNCHANGED <<conv_y, conv_pc>>
       ELSE /\ conv_x' = 0
            /\ conv_y' = conv_y + chunk_size
            /\ conv_pc' = IF conv_y + chunk_size < conv_ds.ysize
                          THEN "inverse_loop" ELSE "inverse_flush"
    /\ UNCHANGED <<conv_ds, conv_io>>
    /\ UNCHANGED <<mosaicVars, cutVars, lidarVars, profVars, femaVars, pageVars, editVars, soilVars>>

\* FlushCache and close at the end of the second pass.
InverseFlush ==
    /\ conv_pc = "inverse_flush"
    /\ conv_pc' = "inverse_done"
    /\ UNCHANGED <<conv_ds, conv_band, conv_x, conv_y, conv_io, conv_windows>>
    /\ UNCHANGED <<mosaicVars, cutVars, lidarVars, profVars, femaVars, pageVars, editVars, soilVars>>

NextRoundTrip ==
    \/ ConvOpen
    \/ ConvertChunk
    \/ ConvFlush
    \/ InverseOpen
    \/ InverseChunk
    \/ InverseFlush

\* range(0, size, chunk_size)  (lines 1043 and 1050).
ChunkOffsets(size) == {off \in 0..(size - 1) : off % chunk_size = 0}

\* The windows of the two loops for a raster of the given size.
AllWindows(xsize, ysize) ==
    {<<x, y, ChunkLen(x, xsize), ChunkLen(y, ysize)>> :
        x \in ChunkOffsets(xsize), y \in ChunkOffsets(ysize)}

\* The pass with its windows taken in an arbitrary order: the body of the
\* loop (lines 1058-1065) applied to any window not yet processed.
ConvertAnyWindow ==
    /\ conv_pc = "loop"
    /\ \E w \in AllWindows(conv_ds.xsize, conv_ds.ysize) :
          /\ ~BagIn(w, conv_windows)
          /\ conv_band' = ConvertWindow(conv_band, w[1], w[2], w[3], w[4])
          /\ conv_windows' = conv_windows (+) SetToBag({w})
          /\ conv_x' = w[1]
          /\ conv_y' = w[2]
          /\ conv_pc' = IF BagToSet(conv_windows) \cup {w}
                              = AllWindows(conv_ds.xsize, conv_ds.ysize)
                        THEN "flush" ELSE "loop"
    /\ UNCHANGED <<conv_ds, conv_io>>
    /\ UNCHANGED <<mosaicVars, cutVars, lidarVars, profVars, femaVars, pageVars, editVars, soilVars>>

\* The rasters the pass is run on in an arbitrary order: every size, the
\* first cell valid or nodata.
InitAnyOrder ==
    /\ \E xs \in ConvSizes, ys \in ConvSizes, cells \in {{}, {<<0, 0>>}} :
          /\ conv_ds = [exists |-> TRUE, xsize |-> xs, ysize |-> ys,
                        nodata |-> DemNodata, nodata_cells |-> cells]
          /\ conv_band = [cell \in TrackedCells(xs, ys) |->
                            InputValue([nodata |-> DemNodata, nodata_cells |-> cells], cell)]
    /\ conv_x = 0
    /\ conv_y = 0
    /\ conv_pc = "open"
    /\ conv_io = {}
    /\ conv_windows = EmptyBag

NextAnyOrder ==
    \/ ConvOpen
    \/ ConvertAnyWindow
    \/ ConvFlush

NextConvertIO ==
    \/ ConvOpen
    \/ ConvOpenFails
    \/ ConvertChunk
    \/ ConvWindowFails
    \/ ConvFlush

NextConvert ==
    \/ ConvOpen
    \/ ConvOpenFails
    \/ ConvertChunk
    \/ ConvFlush

(***************************************************************************)
(* LiDAR downloader: DownloadOprDemsAlgorithm.processAlgorithm             *)
(***************************************************************************)
LidarIdle ==
    /\ all_tiles = <<>>
    /\ tile_i = 1
    /\ canceled = FALSE
    /\ cancel_seen = FALSE
    /\ manifest = NoRaster
    /\ lidar_pc = "idle"
    /\ generate_contours = FALSE

\* if os.path.exists(output_path) and os.path.getsize(output_path) > 1000000
\* (line 534)
KEEP_BYTES == 1000000
KeepsFile(file) == file.exists /\ file.bytes > KEEP_BYTES

\* The sizes of a tile file: at the threshold and one byte above it.
FileSizes == {KEEP_BYTES, KEEP_BYTES + 1}

\* The raster of tile k stored in a file of so many bytes.
TileFile(k, bytes) ==
    LET r == TileRaster(k, 0, FALSE)
    IN  [exists |-> TRUE, x0 |-> r.x0, xsize |-> r.xsize, nodata |-> r.nodata,
         data |-> r.data, bytes |-> bytes]

\* request.urlretrieve(url, output_path) (line 540) opens output_path for
\* writing once the response headers are in and writes the body as it
\* arrives: a transfer that breaks off leaves the bytes delivered, none, some
\* below the threshold of line 534 or some above it.
DeliveredSizes == {0, 500000, 1000500}

\* The file a broken transfer of tile k leaves: without a byte it holds no
\* pixel, with the start of the body it is read as the raster of the tile.
PartialFile(k, bytes) ==
    IF bytes = 0
    THEN [exists |-> TRUE, x0 |-> 0, xsize |-> 0, nodata |-> TileNodata,
          data |-> <<>>, bytes |-> 0]
    ELSE TileFile(k, bytes)

\* filename = url.split('/')[-1]  (line 528): the file names of n tiles; a
\* name is written as the number of the first tile that bears it, and two
\* tiles may bear the same name.
TileNames(n) ==
    {names \in [1..n -> 1..n] :
        \A k \in 1..n : names[k] <= k /\ names[names[k]] = names[k]}

\* output_path = os.path.join(output_folder, filename)  (line 529): the path
\* is the name.
OutputPath(tile) == tile.url

\* 'dem_gsd_meters': wu['dem_gsd_meters']  (line 271): the tiles of the run
\* come from work units of two resolutions, 1 m and 2 m.
TileGsds == {1, 2}

\* The state before Step 4 (lines 196-279): all_tiles is not empty; at the
\* path of a tile a file of an earlier run may lie, of either size.
InitLidar ==
    /\ \E n \in 1..MaxTiles :
         \E gsds \in [1..n -> TileGsds], names \in TileNames(n),
            have \in [1..n -> BOOLEAN], sizes \in [1..n -> FileSizes] :
            /\ \A p \in 1..n :
                  /\ have[p] => \E k \in 1..n : names[k] = p
                  /\ ~have[p] => sizes[p] = KEEP_BYTES
            /\ all_tiles = [k \in 1..n |->
                              [dem_gsd_meters |-> gsds[k], url |-> names[k]]]
            /\ tile_files = [p \in 1..n |->
                               IF have[p] THEN TileFile(p, sizes[p])
                               ELSE NoRaster]
    /\ results = <<>>
    /\ aoi_layer \in {NoLayer, AoiLayer}
    /\ convert_to_feet \in BOOLEAN
    /\ res_i = 1
    /\ tiles_by_gsd = <<>>
    /\ tile_paths = <<>>
    /\ vrt = NoRaster
    /\ mosaic = NoRaster
    /\ mosaic_pc = "idle"
    /\ mosaic_faults = {}
    /\ mosaic_info = NoInfo
    /\ mosaic_ops = <<>>
    /\ tile_i = 1
    /\ canceled = FALSE
    /\ cancel_seen = FALSE
    /\ manifest = NoRaster
    /\ lidar_pc = "download"
    /\ generate_contours \in BOOLEAN

\* The user cancels the run: QGIS sets the flag feedback.isCanceled() reads.
Cancel ==
    /\ lidar_pc \notin {"idle", "done", "failed"}
    /\ ~canceled
    /\ canceled' = TRUE
    /\ UNCHANGED <<all_tiles, generate_contours, tile_i, cancel_seen, manifest, lidar_pc>>
    /\ UNCHANGED <<convVars, mosaicVars, cutVars, profVars, femaVars, pageVars, editVars, soilVars>>

\* Lines 520-531: the flag is not set at the top of the iteration; the tile
\* is taken up.
BeginTile ==
    /\ lidar_pc = "download"
    /\ tile_i <= Len(all_tiles)
    /\ ~canceled
    /\ lidar_pc' = "fetch"
    /\ UNCHANGED <<all_tiles, generate_contours, tile_i, canceled, cancel_seen, manifest>>
    /\ UNCHANGED <<convVars, mosaicVars, cutVars, profVars, femaVars, pageVars, editVars, soilVars>>

\* Lines 533-554: a file of more than KEEP_BYTES bytes at the tile's path is
\* kept; else the tile is fetched to that path, and a fetch that raises
\* leaves a record with status 'error' and no path.  Such a fetch has either
\* failed before output_path was opened, and the path is as it was, or after
\* it, and what had arrived lies at the path.  The flag is not read again
\* before the next iteration.
DownloadTile ==
    /\ lidar_pc = "fetch"
    /\ LET gsd == all_tiles[tile_i].dem_gsd_meters
           output_path == OutputPath(all_tiles[tile_i])
       IN  IF KeepsFile(tile_files[output_path])
           THEN /\ results' = Append(results,
                                     ResultRecord(gsd, output_path, "exists"))
                /\ UNCHANGED tile_files
           ELSE \/ \E bytes \in FileSizes :
                     /\ results' = Append(results,
                                          ResultRecord(gsd, output_path, "downloaded"))
                     /\ tile_files' = [tile_files EXCEPT
                                          ![output_path] = TileFile(tile_i, bytes)]
                \/ /\ results' = Append(results, ResultRecord(gsd, NoPath, "error"))
                   /\ \/ UNCHANGED tile_files
                      \/ \E delivered \in DeliveredSizes :
                            tile_files' = [tile_files EXCEPT
                               ![output_path] = PartialFile(tile_i, delivered)]
    /\ tile_i' = tile_i + 1
    /\ lidar_pc' = "download"
    /\ UNCHANGED <<all_tiles, generate_contours, canceled, cancel_seen, manifest>>
    /\ UNCHANGED <<aoi_layer, convert_to_feet, res_i, tiles_by_gsd, tile_paths,
                   vrt, mosaic, mosaic_pc, mosaic_faults, mosaic_info,
                   mosaic_ops>>
    /\ UNCHANGED <<convVars, cutVars, profVars, femaVars, pageVars, editVars, soilVars>>

\* if feedback.isCanceled(): break  (lines 520-521); download_tiles returns
\* the records made so far.
DownloadBreak ==
    /\ lidar_pc = "download"
    /\ tile_i <= Len(all_tiles)
    /\ canceled
    /\ cancel_seen' = TRUE
    /\ lidar_pc' = "manifest"
    /\ UNCHANGED <<all_tiles, generate_contours, tile_i, canceled, manifest>>
    /\ UNCHANGED <<convVars, mosaicVars, cutVars, profVars, femaVars, pageVars, editVars, soilVars>>

\* The loop of download_tiles is over: return results  (line 556).
DownloadDone ==
    /\ lidar_pc = "download"
    /\ tile_i > Len(all_tiles)
    /\ lidar_pc' = "manifest"
    /\ UNCHANGED <<all_tiles, generate_contours, tile_i, canceled, cancel_seen, manifest>>
    /\ UNCHANGED <<convVars, mosaicVars, cutVars, profVars, femaVars, pageVars, editVars, soilVars>>

\* Step 5: self.write_manifest(results, manifest_path, feedback)
\* (lines 285-287, 558-568).
WriteManifest ==
    /\ lidar_pc = "manifest"
    /\ manifest' = [exists |-> TRUE, rows |-> results]
    /\ lidar_pc' = "call_mosaic"
    /\ UNCHANGED <<all_tiles, generate_contours, tile_i, canceled, cancel_seen>>
    /\ UNCHANGED <<convVars, mosaicVars, cutVars, profVars, femaVars, pageVars, editVars, soilVars>>

\* Step 6: self.create_mosaic(results, mosaic_path, ...)  (lines 289-291).
CallCreateMosaic ==
    /\ lidar_pc = "call_mosaic"
    /\ mosaic_pc = "idle"
    /\ mosaic_pc' = "group"
    /\ lidar_pc' = "mosaic"
    /\ UNCHANGED <<all_tiles, generate_contours, tile_i, canceled, cancel_seen, manifest>>
    /\ UNCHANGED <<results, tile_files, aoi_layer, convert_to_feet, res_i,
                   tiles_by_gsd, tile_paths, vrt, mosaic, mosaic_faults,
                   mosaic_info, mosaic_ops>>
    /\ UNCHANGED <<convVars, cutVars, profVars, femaVars, pageVars, editVars, soilVars>>

\* create_mosaic has returned (line 291).
MosaicReturns ==
    /\ lidar_pc = "mosaic"
    /\ mosaic_pc = "done"
    /\ lidar_pc' = "contours"
    /\ UNCHANGED <<all_tiles, generate_contours, tile_i, canceled, cancel_seen, manifest>>
    /\ UNCHANGED <<convVars, mosaicVars, cutVars, profVars, femaVars, pageVars, editVars, soilVars>>

\* create_mosaic has raised: processAlgorithm ends with that exception.
MosaicRaises ==
    /\ lidar_pc = "mosaic"
    /\ mosaic_pc = "failed"
    /\ lidar_pc' = "failed"
    /\ UNCHANGED <<all_tiles, generate_contours, tile_i, canceled, cancel_seen, manifest>>
    /\ UNCHANGED <<convVars, mosaicVars, cutVars, profVars, femaVars, pageVars, editVars, soilVars>>

\* Step 7: if generate_contours: self.generate_contours(mosaic_path, ...)
\* reads the output raster (lines 293-310, 697-707); then the closing report.
GenerateContours ==
    /\ lidar_pc = "contours"
    /\ generate_contours
    /\ mosaic_ops' = Append(mosaic_ops, "contours")
    /\ lidar_pc' = "done"
    /\ UNCHANGED <<all_tiles, generate_contours, tile_i, canceled, cancel_seen,
                   manifest>>
    /\ UNCHANGED <<results, tile_files, aoi_layer, convert_to_feet, res_i,
                   tiles_by_gsd, tile_paths, vrt, mosaic, mosaic_pc,
                   mosaic_faults, mosaic_info>>
    /\ UNCHANGED <<convVars, cutVars, profVars, femaVars, pageVars, editVars, soilVars>>

\* Step 7 is skipped: the closing report (lines 294-318).
NoContours ==
    /\ lidar_pc = "contours"
    /\ ~generate_contours
    /\ lidar_pc' = "done"
    /\ UNCHANGED <<all_tiles, generate_contours, tile_i, canceled, cancel_seen,
                   manifest>>
    /\ UNCHANGED <<convVars, mosaicVars, cutVars, profVars, femaVars, pageVars, editVars, soilVars>>

NextLidar ==
    \/ Cancel
    \/ BeginTile
    \/ DownloadTile
    \/ DownloadBreak
    \/ DownloadDone
    \/ WriteManifest
    \/ CallCreateMosaic
    \/ GroupTile
    \/ GroupsEmpty
    \/ SelectFinest
    \/ BuildVirtualMosaic
    \/ WarpMosaic
    \/ CleanupVRT
    \/ MosaicConvert
    \/ MosaicInfo
    \/ MosaicReturns
    \/ MosaicRaises
    \/ GenerateContours
    \/ NoContours

(***************************************************************************)
(* Profile generator: ProfileGeneratorAlgorithm.processAlgorithm           *)
(***************************************************************************)
ProfIdle ==
    /\ prof_lines = <<>>
    /\ dem_voids = {}
    /\ prof_part = 1
    /\ prof_seg = 1
    /\ prof_j = 0
    /\ segment_length = 0
    /\ total_distance = 0
    /\ profile_data = <<>>
    /\ prof_pc = "idle"

\* Bounds of the line whose profile is taken.
MaxParts == 1
MaxSegs == 2
MaxSegLen == 5

\* distance = j * 4 and num_points = math.ceil(segment_length / 4)
\* (lines 84 and 87).
SampleStep == 4
NumPoints(len) == (len + SampleStep - 1) \div SampleStep

\* Segment lengths at and next to the multiples of the step.
SegLengths == {len \in 0..MaxSegLen : len % SampleStep \in {0, 1}}

\* The parts a line may have: one to MaxSegs segments each (a part is given
\* by the lengths of its segments).
ProfParts == UNION {[1..n -> SegLengths] : n \in 1..MaxSegs}

\* A place of the feature: the part and the distance along the part, from
\* its first point, at which a sample is taken.
RECURSIVE LengthBefore(_, _)
LengthBefore(part, seg) ==
    IF seg <= 1 THEN 0
    ELSE LengthBefore(part, seg - 1) + prof_lines[part][seg - 1]
PlaceOf(part, seg, distance) == <<part, LengthBefore(part, seg) + distance>>
Places == (1..MaxParts) \X (0..(MaxSegs * MaxSegLen))

\* get_elevation_at_point (lines 134-136): the DEM value under the point,
\* None wherever that value equals the nodata value of the DEM.
DemSample(part, seg, distance) == 100 + seg + distance
IsNoData(part, seg, distance) == PlaceOf(part, seg, distance) \in dem_voids

\* One feature: lines = geom.asMultiPolyline() or [geom.asPolyline()],
\* profile_data = [], total_distance = 0 (lines 66-74).
InitProfile ==
    /\ \E n \in 1..MaxParts : prof_lines \in [1..n -> ProfParts]
    /\ dem_voids \in SUBSET Places
    /\ prof_part = 1
    /\ prof_seg = 1
    /\ prof_j = 0
    /\ segment_length = 0
    /\ total_distance = 0
    /\ profile_data = <<>>
    /\ prof_pc = "segment"

\* for i in range(len(line) - 1): segment_length = start.distance(end);
\* num_points = ceil(segment_length / 4)  (lines 76-84).
MeasureSegment ==
    /\ prof_pc = "segment"
    /\ prof_seg <= Len(prof_lines[prof_part])
    /\ segment_length' = prof_lines[prof_part][prof_seg]
    /\ prof_j' = 0
    /\ prof_pc' = "sample"
    /\ UNCHANGED <<prof_lines, dem_voids, prof_part, prof_seg, total_distance,
                   profile_data>>
    /\ UNCHANGED <<convVars, mosaicVars, cutVars, lidarVars, femaVars, pageVars, editVars, soilVars>>

\* One iteration of for j in range(num_points) (lines 86-96): the point at
\* distance j * 4 from the start of the segment; a row is appended unless
\* the DEM has no value there.  The row also keeps the part and the segment
\* it was sampled on.
TakeSample ==
    /\ prof_pc = "sample"
    /\ prof_j < NumPoints(segment_length)
    /\ LET distance == prof_j * SampleStep
       IN  /\ distance <= segment_length
           /\ profile_data' =
                 IF IsNoData(prof_part, prof_seg, distance)
                 THEN profile_data
                 ELSE Append(profile_data,
                             [distance |-> total_distance + distance,
                              elevation |-> DemSample(prof_part, prof_seg, distance),
                              part |-> prof_part, segment |-> prof_seg])
    /\ prof_j' = prof_j + 1
    /\ UNCHANGED <<prof_lines, dem_voids, prof_part, prof_seg, segment_length,
                   total_distance, prof_pc>>
    /\ UNCHANGED <<convVars, mosaicVars, cutVars, lidarVars, femaVars, pageVars, editVars, soilVars>>

\* The j loop is over: on to the next segment of the part.
EndSegment ==
    /\ prof_pc = "sample"
    /\ \/ prof_j >= NumPoints(segment_length)
       \/ prof_j * SampleStep > segment_length
    /\ prof_seg' = prof_seg + 1
    /\ prof_pc' = "segment"
    /\ UNCHANGED <<prof_lines, dem_voids, prof_part, prof_j, segment_length,
                   total_distance, profile_data>>
    /\ UNCHANGED <<convVars, mosaicVars, cutVars, lidarVars, femaVars, pageVars, editVars, soilVars>>

\* The i loop is over: total_distance += segment_length (line 98, once per
\* part, with the length of its last segment), then the next part.
EndPart ==
    /\ prof_pc = "segment"
    /\ prof_seg > Len(prof_lines[prof_part])
    /\ total_distance' = total_distance + segment_length
    /\ prof_seg' = 1
    /\ prof_part' = prof_part + 1
    /\ prof_pc' = IF prof_part < Len(prof_lines) THEN "segment" ELSE "sheet"
    /\ UNCHANGED <<prof_lines, dem_voids, prof_j, segment_length, profile_data>>
    /\ UNCHANGED <<convVars, mosaicVars, cutVars, lidarVars, femaVars, pageVars, editVars, soilVars>>

\* df = pd.DataFrame(profile_data); df.to_excel(...)  (lines 100-101).
WriteSheet ==
    /\ prof_pc = "sheet"
    /\ prof_pc' = "done"
    /\ UNCHANGED <<prof_lines, dem_voids, prof_part, prof_seg, prof_j,
                   segment_length, total_distance, profile_data>>
    /\ UNCHANGED <<convVars, mosaicVars, cutVars, lidarVars, femaVars, pageVars, editVars, soilVars>>

NextProfile ==
    \/ MeasureSegment
    \/ TakeSample
    \/ EndSegment
    \/ EndPart
    \/ WriteSheet

(***************************************************************************)
(* FEMA NFHL downloader: FemaNfhlDownloaderAlgorithm.processAlgorithm      *)
(***************************************************************************)
FemaIdle ==
    /\ layers_to_download = <<>>
    /\ clip_layers = FALSE
    /\ aoi_geom = "none"
    /\ null_is_true = FALSE
    /\ fema_i = 1
    /\ fema_canceled = FALSE
    /\ fema_log = <<>>
    /\ fema_pc = "idle"

\* Bound on the number of layers selected for download.
MaxLayers == 2

\* AVAILABLE_LAYERS (lines 54-82): flood hazard layers (clip True) and
\* reference layers (clip False) of the table.
AVAILABLE_LAYERS ==
    [name \in {"Flood Hazard Zones", "Subbasins", "Coastal Transects",
               "Political Jurisdictions", "FIRM Panels"} |->
        CASE name = "Flood Hazard Zones" -> [id |-> 28, clip |-> TRUE, priority |-> 1]
          [] name = "Subbasins" -> [id |-> 31, clip |-> FALSE, priority |-> 10]
          [] name = "Coastal Transects" -> [id |-> 15, clip |-> TRUE, priority |-> 11]
          [] name = "Political Jurisdictions" -> [id |-> 22, clip |-> FALSE, priority |-> 23]
          [] name = "FIRM Panels" -> [id |-> 3, clip |-> FALSE, priority |-> 24]]

\* layers_to_download: the layers selected, each once (lines 220-228).
LayerSelections ==
    {sel \in UNION {[1..n -> DOMAIN AVAILABLE_LAYERS] : n \in 1..MaxLayers} :
        \A a, b \in DOMAIN sel : a # b => sel[a] # sel[b]}

\* The geometry of the first AOI feature (lines 255-258): "none" for an AOI
\* without features, "null" for a first feature without geometry.
AoiGeoms == {"none", "null", "polygon"}

\* should_clip = clip_layers and layer_info['clip']  (line 269)
ShouldClip(layer_name) == clip_layers /\ AVAILABLE_LAYERS[layer_name].clip
\* clip_geom = aoi_geom if should_clip else None  (line 271)
ClipGeom(layer_name) == IF ShouldClip(layer_name) THEN aoi_geom ELSE "none"
\* if clip_geom:  (line 399) -- None is false and a geometry with a shape is
\* true; a null QgsGeometry is what the Python bindings of the QGIS at hand
\* make of it, false where they define the truth value of a geometry, true
\* where they leave Python's default for an object.
Truthy(geom) == geom = "polygon" \/ (geom = "null" /\ null_is_true)

\* _clip_layer (lines 546-571): geom.intersects(clip_geom) holds for no
\* feature when clip_geom is null, and the clipped layer is empty.
ClipLeavesFeatures(geom) == geom = "polygon"

\* One line of the record of what was done with a layer: whether features
\* were retrieved for it, whether _clip_layer was called on it, whether a
\* shapefile was saved, and the last message pushed to the feedback ("no
\* data" stands for the messages of the returns of lines 376-384 and of
\* the except branches: HTTP Error, No features found, Request timeout,
\* Error).
LayerRecord(layer_name, fetched, clipped, saved, message) ==
    [layer |-> layer_name, fetched |-> fetched, clipped |-> clipped,
     saved |-> saved, message |-> message]

InitFema ==
    /\ layers_to_download \in LayerSelections
    /\ clip_layers \in BOOLEAN
    /\ aoi_geom \in AoiGeoms
    /\ null_is_true \in BOOLEAN
    /\ fema_i = 1
    /\ fema_canceled = FALSE
    /\ fema_log = <<>>
    /\ fema_pc = "loop"

\* The user cancels while the loop runs, between two layers or while a
\* layer is being requested, clipped and saved.
FemaCancel ==
    /\ fema_pc \in {"loop", "layer"}
    /\ ~fema_canceled
    /\ fema_canceled' = TRUE
    /\ UNCHANGED <<layers_to_download, clip_layers, aoi_geom, null_is_true, fema_i, fema_log,
                   fema_pc>>
    /\ UNCHANGED <<convVars, mosaicVars, cutVars, lidarVars, profVars, pageVars, editVars, soilVars>>

\* if multi_feedback.isCanceled(): break  (lines 261-263)
FemaBreak ==
    /\ fema_pc = "loop"
    /\ fema_i <= Len(layers_to_download)
    /\ fema_canceled
    /\ fema_pc' = "done"
    /\ UNCHANGED <<layers_to_download, clip_layers, aoi_geom, null_is_true, fema_i,
                   fema_canceled, fema_log>>
    /\ UNCHANGED <<convVars, mosaicVars, cutVars, lidarVars, profVars, pageVars, editVars, soilVars>>

\* Line 262: the flag is not set at the top of the iteration; the layer is
\* taken up (lines 265-271).
FemaBeginLayer ==
    /\ fema_pc = "loop"
    /\ fema_i <= Len(layers_to_download)
    /\ ~fema_canceled
    /\ fema_pc' = "layer"
    /\ UNCHANGED <<layers_to_download, clip_layers, aoi_geom, null_is_true, fema_i,
                   fema_canceled, fema_log>>
    /\ UNCHANGED <<convVars, mosaicVars, cutVars, lidarVars, profVars, pageVars, editVars, soilVars>>

\* The outcomes of _download_layer (lines 273-287); the flag is not read
\* again before the next iteration.  The request carries the bounding box of
\* the AOI layer (lines 234-241, 354-366) and the code saves whatever the
\* server returns for it.
\* _download_layer returns None before features are retrieved: HTTP error,
\* no features, timeout or another exception raised by the request or by
\* reading its answer (lines 371-383 and 422-427).
LayerNoData ==
    /\ fema_pc = "layer"
    /\ fema_log' = Append(fema_log,
                          LayerRecord(layers_to_download[fema_i], FALSE, FALSE, FALSE,
                                      "no data"))
    /\ fema_i' = fema_i + 1
    /\ fema_pc' = "loop"
    /\ UNCHANGED <<layers_to_download, clip_layers, aoi_geom, null_is_true,
                   fema_canceled>>
    /\ UNCHANGED <<convVars, mosaicVars, cutVars, lidarVars, profVars, pageVars, editVars, soilVars>>

\* Features were retrieved (line 384) but no valid layer could be made of
\* them: _download_layer returns None before the clip step (lines 386-396).
LayerInvalid ==
    /\ fema_pc = "layer"
    /\ fema_log' = Append(fema_log,
                          LayerRecord(layers_to_download[fema_i], TRUE, FALSE, FALSE,
                                      "Failed to create layer"))
    /\ fema_i' = fema_i + 1
    /\ fema_pc' = "loop"
    /\ UNCHANGED <<layers_to_download, clip_layers, aoi_geom, null_is_true,
                   fema_canceled>>
    /\ UNCHANGED <<convVars, mosaicVars, cutVars, lidarVars, profVars, pageVars, editVars, soilVars>>

\* A statement of the try block raises after the features were retrieved
\* (line 386): making the layer (line 389), converting its timestamp fields
\* (line 396; datetime.utcfromtimestamp raises OverflowError for a value out
\* of range, which _convert_timestamp_fields does not catch), or, where
\* clip_geom is true, _clip_layer and what follows it (lines 401-413).  The
\* except of lines 425-427 pushes the error and returns None, as the
\* returns without data do.
LayerRaises ==
    /\ fema_pc = "layer"
    /\ \E clipped \in {FALSE, Truthy(ClipGeom(layers_to_download[fema_i]))} :
          fema_log' = Append(fema_log,
                             LayerRecord(layers_to_download[fema_i], TRUE, clipped,
                                         FALSE, "no data"))
    /\ fema_i' = fema_i + 1
    /\ fema_pc' = "loop"
    /\ UNCHANGED <<layers_to_download, clip_layers, aoi_geom, null_is_true,
                   fema_canceled>>
    /\ UNCHANGED <<convVars, mosaicVars, cutVars, lidarVars, profVars, pageVars, editVars, soilVars>>

\* The layer is clipped and nothing is left of it (lines 399-405).
LayerClippedAway ==
    /\ fema_pc = "layer"
    /\ Truthy(ClipGeom(layers_to_download[fema_i]))
    /\ fema_log' = Append(fema_log,
                          LayerRecord(layers_to_download[fema_i], TRUE, TRUE, FALSE,
                                      "No features after clipping"))
    /\ fema_i' = fema_i + 1
    /\ fema_pc' = "loop"
    /\ UNCHANGED <<layers_to_download, clip_layers, aoi_geom, null_is_true,
                   fema_canceled>>
    /\ UNCHANGED <<convVars, mosaicVars, cutVars, lidarVars, profVars, pageVars, editVars, soilVars>>

\* The layer, clipped if clip_geom is true, cannot be saved (lines 399-419).
LayerSaveFails ==
    /\ fema_pc = "layer"
    /\ LET clip_geom == ClipGeom(layers_to_download[fema_i])
       IN  /\ Truthy(clip_geom) => ClipLeavesFeatures(clip_geom)
           /\ fema_log' = Append(fema_log,
                                 LayerRecord(layers_to_download[fema_i], TRUE,
                                             Truthy(clip_geom), FALSE,
                                             "Failed to save shapefile"))
    /\ fema_i' = fema_i + 1
    /\ fema_pc' = "loop"
    /\ UNCHANGED <<layers_to_download, clip_layers, aoi_geom, null_is_true,
                   fema_canceled>>
    /\ UNCHANGED <<convVars, mosaicVars, cutVars, lidarVars, profVars, pageVars, editVars, soilVars>>

\* The layer, clipped if clip_geom is true, is saved (lines 399-416).
LayerSaved ==
    /\ fema_pc = "layer"
    /\ LET clip_geom == ClipGeom(layers_to_download[fema_i])
       IN  /\ Truthy(clip_geom) => ClipLeavesFeatures(clip_geom)
           /\ fema_log' = Append(fema_log,
                                 LayerRecord(layers_to_download[fema_i], TRUE,
                                             Truthy(clip_geom), TRUE, "Saved"))
    /\ fema_i' = fema_i + 1
    /\ fema_pc' = "loop"
    /\ UNCHANGED <<layers_to_download, clip_layers, aoi_geom, null_is_true,
                   fema_canceled>>
    /\ UNCHANGED <<convVars, mosaicVars, cutVars, lidarVars, profVars, pageVars, editVars, soilVars>>

\* The loop has gone through every layer: summary and README (lines 284-297).
FemaSummary ==
    /\ fema_pc = "loop"
    /\ fema_i > Len(layers_to_download)
    /\ fema_pc' = "done"
    /\ UNCHANGED <<layers_to_download, clip_layers, aoi_geom, null_is_true, fema_i,
                   fema_canceled, fema_log>>
    /\ UNCHANGED <<convVars, mosaicVars, cutVars, lidarVars, profVars, pageVars, editVars, soilVars>>

NextFema ==
    \/ FemaCancel
    \/ FemaBreak
    \/ FemaBeginLayer
    \/ LayerNoData
    \/ LayerInvalid
    \/ LayerRaises
    \/ LayerClippedAway
    \/ LayerSaveFails
    \/ LayerSaved
    \/ FemaSummary

(***************************************************************************)
(* Index query: DownloadOprDemsAlgorithm.query_3dep_index                  *)
(* The server holds the records 1..page_total in the order of the query    *)
(* (orderByFields); the request with resultOffset o is answered with the   *)
(* records o+1 .. o+PAGE_SIZE, as far as they exist.                       *)
(***************************************************************************)
\* PAGE_SIZE = 2000  (line 65)
PAGE_SIZE == 2000
\* The number of full pages the server may hold.
MaxPages == 1

NoFault == [at |-> 0, kind |-> "none"]

PageIdle ==
    /\ page_total = 0
    /\ page_empty = {}
    /\ page_fault = NoFault
    /\ result_offset = 0
    /\ items = <<>>
    /\ page_requests = <<>>
    /\ page_pc = "idle"

\* The numbers of records around the page boundaries.
PageTotals ==
    {t \in 0..(MaxPages * PAGE_SIZE + 1) :
        t % PAGE_SIZE \in {0, 1, PAGE_SIZE - 1}}
\* The records that may come with an empty sourcedem_link.
EmptyLinkCandidates(total) == {1, PAGE_SIZE, PAGE_SIZE + 1} \cap (1..total)
PageFaults ==
    {NoFault} \cup [at : 1..(MaxPages + 1), kind : {"error", "exception"}]

\* feats = result.get("features", [])  (line 421): the records of the page
\* at resultOffset off, as the interval first..last.
PageFirst(off) == off + 1
PageLast(off, total) == Min2(off + PAGE_SIZE, total)
PageLen(off, total) == Max2(PageLast(off, total) - off, 0)

\* for ftr in feats: if attrs.get("sourcedem_link"): items.append(attrs)
\* (lines 424-427): the records first..last without those of empty, in
\* order.
KeptOfPage(first, last, empty) ==
    LET skip == {r \in empty : first <= r /\ r <= last}
        n == Max2(last - first + 1, 0) - Cardinality(skip)
        Rank(r) == (r - first + 1) - Cardinality({q \in skip : q <= r})
    IN  [i \in 1..n |->
           CHOOSE r \in (first + i - 1)..(first + i - 1 + Cardinality(skip)) :
               r \notin skip /\ Rank(r) = i]

\* result_offset += self.PAGE_SIZE  (line 432)
NextOffsetSkipping(off) == off + 2 * PAGE_SIZE
NextOffset(off) == off + PAGE_SIZE

\* The request about to be made is the one that fails.
FaultNow(kind) ==
    page_fault.kind = kind /\ page_fault.at = Len(page_requests) + 1

InitPage ==
    /\ page_total \in PageTotals
    /\ page_empty \in SUBSET EmptyLinkCandidates(page_total)
    /\ page_fault \in PageFaults
    /\ result_offset = 0
    /\ items = <<>>
    /\ page_requests = <<>>
    /\ page_pc = "request"

\* Lines 405-433: a page of PAGE_SIZE features; the loop goes on.
FetchFullPage ==
    /\ page_pc = "request"
    /\ ~FaultNow("error") /\ ~FaultNow("exception")
    /\ PageLen(result_offset, page_total) >= PAGE_SIZE
    /\ page_requests' = Append(page_requests, result_offset)
    /\ items' = items \o KeptOfPage(PageFirst(result_offset),
                                    PageLast(result_offset, page_total),
                                    page_empty)
    /\ result_offset' = NextOffset(result_offset)
    /\ UNCHANGED <<page_total, page_empty, page_fault, page_pc>>
    /\ UNCHANGED <<convVars, mosaicVars, cutVars, lidarVars, profVars, femaVars, editVars, soilVars>>

\* Lines 405-430: a page of fewer than PAGE_SIZE features; break.
FetchLastPage ==
    /\ page_pc = "request"
    /\ ~FaultNow("error") /\ ~FaultNow("exception")
    /\ PageLen(result_offset, page_total) < PAGE_SIZE
    /\ page_requests' = Append(page_requests, result_offset)
    /\ items' = items \o KeptOfPage(PageFirst(result_offset),
                                    PageLast(result_offset, page_total),
                                    page_empty)
    /\ page_pc' = "done"
    /\ UNCHANGED <<page_total, page_empty, page_fault, result_offset>>
    /\ UNCHANGED <<convVars, mosaicVars, cutVars, lidarVars, profVars, femaVars, editVars, soilVars>>

\* Lines 417-419: the answer carries "error"; reportError and break.
ApiError ==
    /\ page_pc = "request"
    /\ FaultNow("error")
    /\ page_requests' = Append(page_requests, result_offset)
    /\ page_pc' = "done"
    /\ UNCHANGED <<page_total, page_empty, page_fault, result_offset, items>>
    /\ UNCHANGED <<convVars, mosaicVars, cutVars, lidarVars, profVars, femaVars, editVars, soilVars>>

\* Lines 435-437: the request raises; reportError and break.
RequestRaises ==
    /\ page_pc = "request"
    /\ FaultNow("exception")
    /\ page_requests' = Append(page_requests, result_offset)
    /\ page_pc' = "done"
    /\ UNCHANGED <<page_total, page_empty, page_fault, result_offset, items>>
    /\ UNCHANGED <<convVars, mosaicVars, cutVars, lidarVars, profVars, femaVars, editVars, soilVars>>

NextPage ==
    \/ FetchFullPage
    \/ FetchLastPage
    \/ ApiError
    \/ RequestRaises

(***************************************************************************)
(* Endpoint sampler: SampleRasterAtLineEndpoints.processAlgorithm          *)
(***************************************************************************)
EditIdle ==
    /\ was_editable = FALSE
    /\ editable = FALSE
    /\ started_edit = FALSE
    /\ fields_left = 0
    /\ feats_left = 0
    /\ edit_canceled = FALSE
    /\ edit_calls = <<>>
    /\ edit_pc = "idle"

\* The number of features of the line layer.
MaxFeats == 2

\* for name in ('StartVal','EndVal','Slope','Length')  (line 77)
FieldNames == <<"StartVal", "EndVal", "Slope", "Length">>

\* if started_edit: line_layer.rollBack()  (lines 80, 92)
NeverRollBack(started) == FALSE
RollBackOnError(started) == started

InitEdit ==
    /\ was_editable \in BOOLEAN
    /\ editable = was_editable
    /\ started_edit = FALSE
    /\ fields_left = Len(FieldNames)
    /\ feats_left \in 0..MaxFeats
    /\ edit_canceled = FALSE
    /\ edit_calls = <<>>
    /\ edit_pc = "start"

\* Lines 71-74: the layer is not editable and startEditing() succeeds.
StartEditing ==
    /\ edit_pc = "start"
    /\ ~editable
    /\ editable' = TRUE
    /\ started_edit' = TRUE
    /\ edit_calls' = Append(edit_calls, "startEditing")
    /\ edit_pc' = "fields"
    /\ UNCHANGED <<was_editable, fields_left, feats_left, edit_canceled>>
    /\ UNCHANGED <<convVars, mosaicVars, cutVars, lidarVars, profVars, femaVars, pageVars, soilVars>>

\* Lines 72-73: startEditing() returns False; raise.
StartEditingFails ==
    /\ edit_pc = "start"
    /\ ~editable
    /\ edit_calls' = Append(edit_calls, "startEditing")
    /\ edit_pc' = "failed"
    /\ UNCHANGED <<was_editable, editable, started_edit, fields_left, feats_left,
                   edit_canceled>>
    /\ UNCHANGED <<convVars, mosaicVars, cutVars, lidarVars, profVars, femaVars, pageVars, soilVars>>

\* Line 71: the layer is editable already; started_edit stays False.
AlreadyEditable ==
    /\ edit_pc = "start"
    /\ editable
    /\ edit_pc' = "fields"
    /\ UNCHANGED <<was_editable, editable, started_edit, fields_left, feats_left,
                   edit_canceled, edit_calls>>
    /\ UNCHANGED <<convVars, mosaicVars, cutVars, lidarVars, profVars, femaVars, pageVars, soilVars>>

\* Line 78: the field exists already.
FieldPresent ==
    /\ edit_pc = "fields"
    /\ fields_left > 0
    /\ fields_left' = fields_left - 1
    /\ UNCHANGED <<was_editable, editable, started_edit, feats_left, edit_canceled,
                   edit_calls, edit_pc>>
    /\ UNCHANGED <<convVars, mosaicVars, cutVars, lidarVars, profVars, femaVars, pageVars, soilVars>>

\* Lines 78-79: the field is missing and prov.addAttributes succeeds.
AddField ==
    /\ edit_pc = "fields"
    /\ fields_left > 0
    /\ fields_left' = fields_left - 1
    /\ edit_calls' = Append(edit_calls, "addAttributes")
    /\ UNCHANGED <<was_editable, editable, started_edit, feats_left, edit_canceled,
                   edit_pc>>
    /\ UNCHANGED <<convVars, mosaicVars, cutVars, lidarVars, profVars, femaVars, pageVars, soilVars>>

\* Lines 79-81: prov.addAttributes fails; roll back an own session, raise.
AddFieldFails ==
    /\ edit_pc = "fields"
    /\ fields_left > 0
    /\ editable' = IF RollBackOnError(started_edit) THEN FALSE ELSE editable
    /\ edit_calls' = IF RollBackOnError(started_edit)
                     THEN edit_calls \o <<"addAttributes", "rollBack">>
                     ELSE Append(edit_calls, "addAttributes")
    /\ edit_pc' = "failed"
    /\ UNCHANGED <<was_editable, started_edit, fields_left, feats_left, edit_canceled>>
    /\ UNCHANGED <<convVars, mosaicVars, cutVars, lidarVars, profVars, femaVars, pageVars, soilVars>>

\* Lines 82-86: all four names seen; updateFields.
FieldsDone ==
    /\ edit_pc = "fields"
    /\ fields_left = 0
    /\ edit_pc' = "transform"
    /\ UNCHANGED <<was_editable, editable, started_edit, fields_left, feats_left,
                   edit_canceled, edit_calls>>
    /\ UNCHANGED <<convVars, mosaicVars, cutVars, lidarVars, profVars, femaVars, pageVars, soilVars>>

\* Lines 89-90, 95-109: the transform is built; beginEditCommand.
BuildTransform ==
    /\ edit_pc = "transform"
    /\ edit_calls' = Append(edit_calls, "beginEditCommand")
    /\ edit_pc' = "loop"
    /\ UNCHANGED <<was_editable, editable, started_edit, fields_left, feats_left,
                   edit_canceled>>
    /\ UNCHANGED <<convVars, mosaicVars, cutVars, lidarVars, profVars, femaVars, pageVars, soilVars>>

\* Lines 91-93: QgsCoordinateTransform raises; roll back an own session, raise.
BuildTransformFails ==
    /\ edit_pc = "transform"
    /\ editable' = IF RollBackOnError(started_edit) THEN FALSE ELSE editable
    /\ edit_calls' = IF RollBackOnError(started_edit)
                     THEN Append(edit_calls, "rollBack")
                     ELSE edit_calls
    /\ edit_pc' = "failed"
    /\ UNCHANGED <<was_editable, started_edit, fields_left, feats_left, edit_canceled>>
    /\ UNCHANGED <<convVars, mosaicVars, cutVars, lidarVars, profVars, femaVars, pageVars, soilVars>>

\* The user cancels while the algorithm runs.
EditCancel ==
    /\ edit_pc \in {"start", "fields", "transform", "loop", "feature"}
    /\ ~edit_canceled
    /\ edit_canceled' = TRUE
    /\ UNCHANGED <<was_editable, editable, started_edit, fields_left, feats_left,
                   edit_calls, edit_pc>>
    /\ UNCHANGED <<convVars, mosaicVars, cutVars, lidarVars, profVars, femaVars, pageVars, soilVars>>

\* Lines 114-115: the next feature, the flag is not set.
BeginFeature ==
    /\ edit_pc = "loop"
    /\ feats_left > 0
    /\ ~edit_canceled
    /\ edit_pc' = "feature"
    /\ UNCHANGED <<was_editable, editable, started_edit, fields_left, feats_left,
                   edit_canceled, edit_calls>>
    /\ UNCHANGED <<convVars, mosaicVars, cutVars, lidarVars, profVars, femaVars, pageVars, soilVars>>

\* Lines 117-166: the feature is sampled, its four attributes written.
SampleFeature ==
    /\ edit_pc = "feature"
    /\ feats_left' = feats_left - 1
    /\ edit_calls' = Append(edit_calls, "changeAttributeValue")
    /\ edit_pc' = "loop"
    /\ UNCHANGED <<was_editable, editable, started_edit, fields_left,
                   edit_canceled>>
    /\ UNCHANGED <<convVars, mosaicVars, cutVars, lidarVars, profVars, femaVars, pageVars, soilVars>>

\* Lines 114-115, 168: cancelled, break; endEditCommand.
EditBreak ==
    /\ edit_pc = "loop"
    /\ feats_left > 0
    /\ edit_canceled
    /\ edit_calls' = Append(edit_calls, "endEditCommand")
    /\ edit_pc' = "commit"
    /\ UNCHANGED <<was_editable, editable, started_edit, fields_left, feats_left,
                   edit_canceled>>
    /\ UNCHANGED <<convVars, mosaicVars, cutVars, lidarVars, profVars, femaVars, pageVars, soilVars>>

\* Lines 114, 168: no feature left; endEditCommand.
EndEditCommand ==
    /\ edit_pc = "loop"
    /\ feats_left = 0
    /\ edit_calls' = Append(edit_calls, "endEditCommand")
    /\ edit_pc' = "commit"
    /\ UNCHANGED <<was_editable, editable, started_edit, fields_left, feats_left,
                   edit_canceled>>
    /\ UNCHANGED <<convVars, mosaicVars, cutVars, lidarVars, profVars, femaVars, pageVars, soilVars>>

\* Lines 170-171, 180: own session, commitChanges() succeeds and closes it.
CommitChanges ==
    /\ edit_pc = "commit"
    /\ started_edit
    /\ editable' = FALSE
    /\ edit_calls' = Append(edit_calls, "commitChanges")
    /\ edit_pc' = "done"
    /\ UNCHANGED <<was_editable, started_edit, fields_left, feats_left, edit_canceled>>
    /\ UNCHANGED <<convVars, mosaicVars, cutVars, lidarVars, profVars, femaVars, pageVars, soilVars>>

\* Lines 171-173: commitChanges() fails; rollBack and raise.
CommitFails ==
    /\ edit_pc = "commit"
    /\ started_edit
    /\ editable' = FALSE
    /\ edit_calls' = edit_calls \o <<"commitChanges", "rollBack">>
    /\ edit_pc' = "failed"
    /\ UNCHANGED <<was_editable, started_edit, fields_left, feats_left, edit_canceled>>
    /\ UNCHANGED <<convVars, mosaicVars, cutVars, lidarVars, profVars, femaVars, pageVars, soilVars>>

\* Lines 170, 180: the session is the caller's; return.
NoCommit ==
    /\ edit_pc = "commit"
    /\ ~started_edit
    /\ edit_pc' = "done"
    /\ UNCHANGED <<was_editable, editable, started_edit, fields_left, feats_left,
                   edit_canceled, edit_calls>>
    /\ UNCHANGED <<convVars, mosaicVars, cutVars, lidarVars, profVars, femaVars, pageVars, soilVars>>

NextEdit ==
    \/ StartEditing
    \/ StartEditingFails
    \/ AlreadyEditable
    \/ FieldPresent
    \/ AddField
    \/ AddFieldFails
    \/ FieldsDone
    \/ BuildTransform
    \/ BuildTransformFails
    \/ EditCancel
    \/ BeginFeature
    \/ SampleFeature
    \/ EditBreak
    \/ EndEditCommand
    \/ CommitChanges
    \/ CommitFails
    \/ NoCommit

(***************************************************************************)
(* SSURGO downloader: SSURGODownloaderAlgorithm.processAlgorithm           *)
(***************************************************************************)
SoilIdle ==
    /\ components = <<>>
    /\ comp_i = 1
    /\ dominant_components = <<>>
    /\ soil_polys = <<>>
    /\ poly_i = 1
    /\ soil_out = <<>>
    /\ soil_pc = "idle"

\* The rows of the SDA answer, the map unit keys, the percentages and the
\* soil polygons of a run.
MaxRows == 3
MaxKeys == 2
MaxPct == 2
MaxPolys == 2

\* component = dict(zip(col_names, row))  (lines 375-379): the row at place
\* i of the answer; cokey stands for the component's own attributes
\* (compname, hydgrp).
ComponentRow(i, mukey, pct) == [mukey |-> mukey, cokey |-> i, comppct_r |-> pct]

\* comp['comppct_r'] > dominant_components[mukey]['comppct_r']  (line 387)
ReplacesOnTie(new, old) == new >= old
Replaces(new, old) == new > old

\* Lines 385-388: one iteration of the loop over the components.
Dominate(dominant, comp) ==
    IF \/ comp.mukey \notin DOMAIN dominant
       \/ Replaces(comp.comppct_r, dominant[comp.mukey].comppct_r)
    THEN [k \in DOMAIN dominant \cup {comp.mukey} |->
            IF k = comp.mukey THEN comp ELSE dominant[k]]
    ELSE dominant

\* Lines 431-441: the output feature of polygon p.
OutFeature(p, mukey, comp) ==
    [poly |-> p, mukey |-> mukey, cokey |-> comp.cokey,
     comppct_r |-> comp.comppct_r]

InitSoil ==
    /\ \E n \in 0..MaxRows :
         \E keys \in [1..n -> 1..MaxKeys], pcts \in [1..n -> 1..MaxPct] :
            components = [i \in 1..n |-> ComponentRow(i, keys[i], pcts[i])]
    /\ \E n \in 0..MaxPolys : soil_polys \in [1..n -> 1..MaxKeys]
    /\ comp_i = 1
    /\ dominant_components = <<>>
    /\ poly_i = 1
    /\ soil_out = <<>>
    /\ soil_pc = "dominant"

\* Lines 368-369: the answer has no row; raise.
NoComponents ==
    /\ soil_pc = "dominant"
    /\ Len(components) = 0
    /\ soil_pc' = "failed"
    /\ UNCHANGED <<components, comp_i, dominant_components, soil_polys,
                   poly_i, soil_out>>
    /\ UNCHANGED <<convVars, mosaicVars, cutVars, lidarVars, profVars, femaVars, pageVars, editVars>>

\* Lines 385-388: the next component row.
TakeComponent ==
    /\ soil_pc = "dominant"
    /\ comp_i <= Len(components)
    /\ dominant_components' = Dominate(dominant_components, components[comp_i])
    /\ comp_i' = comp_i + 1
    /\ UNCHANGED <<components, soil_polys, poly_i, soil_out, soil_pc>>
    /\ UNCHANGED <<convVars, mosaicVars, cutVars, lidarVars, profVars, femaVars, pageVars, editVars>>

\* Lines 414-424: all rows seen, but parameterAsSink gives no sink (the
\* output cannot be created); raise, nothing is written.
SinkFails ==
    /\ soil_pc = "dominant"
    /\ Len(components) >= 1
    /\ comp_i > Len(components)
    /\ soil_pc' = "failed"
    /\ UNCHANGED <<components, comp_i, dominant_components, soil_polys,
                   poly_i, soil_out>>
    /\ UNCHANGED <<convVars, mosaicVars, cutVars, lidarVars, profVars, femaVars, pageVars, editVars>>

\* Lines 390-424: all rows seen; the sink is created.
ComponentsDone ==
    /\ soil_pc = "dominant"
    /\ Len(components) >= 1
    /\ comp_i > Len(components)
    /\ soil_pc' = "output"
    /\ UNCHANGED <<components, comp_i, dominant_components, soil_polys,
                   poly_i, soil_out>>
    /\ UNCHANGED <<convVars, mosaicVars, cutVars, lidarVars, profVars, femaVars, pageVars, editVars>>

\* Lines 429-443: a polygon whose key has a component is added to the sink.
AddPolygon ==
    /\ soil_pc = "output"
    /\ poly_i <= Len(soil_polys)
    /\ soil_polys[poly_i] \in DOMAIN dominant_components
    /\ soil_out' = Append(soil_out,
                          OutFeature(poly_i, soil_polys[poly_i],
                                     dominant_components[soil_polys[poly_i]]))
    /\ poly_i' = poly_i + 1
    /\ UNCHANGED <<components, comp_i, dominant_components, soil_polys,
                   soil_pc>>
    /\ UNCHANGED <<convVars, mosaicVars, cutVars, lidarVars, profVars, femaVars, pageVars, editVars>>

\* Lines 429-432: a polygon whose key has no component is passed over.
SkipPolygon ==
    /\ soil_pc = "output"
    /\ poly_i <= Len(soil_polys)
    /\ soil_polys[poly_i] \notin DOMAIN dominant_components
    /\ poly_i' = poly_i + 1
    /\ UNCHANGED <<components, comp_i, dominant_components, soil_polys,
                   soil_out, soil_pc>>
    /\ UNCHANGED <<convVars, mosaicVars, cutVars, lidarVars, profVars, femaVars, pageVars, editVars>>

\* Lines 429, 449: no polygon left.
PolygonsDone ==
    /\ soil_pc = "output"
    /\ poly_i > Len(soil_polys)
    /\ soil_pc' = "done"
    /\ UNCHANGED <<components, comp_i, dominant_components, soil_polys,
                   poly_i, soil_out>>
    /\ UNCHANGED <<convVars, mosaicVars, cutVars, lidarVars, profVars, femaVars, pageVars, editVars>>

NextSoil ==
    \/ NoComponents
    \/ TakeComponent
    \/ SinkFails
    \/ ComponentsDone
    \/ AddPolygon
    \/ SkipPolygon
    \/ PolygonsDone

(***************************************************************************)
(* Specifications                                                          *)
(***************************************************************************)
InitConvertSpec ==
    InitConvert /\ MosaicIdle /\ CutIdle /\ LidarIdle /\ ProfIdle /\ FemaIdle
    /\ PageIdle /\ EditIdle /\ SoilIdle
SpecConvert == InitConvertSpec /\ [][NextConvert]_vars

InitMosaicSpec ==
    InitMosaic /\ ConvIdle /\ CutIdle /\ LidarIdle /\ ProfIdle /\ FemaIdle
    /\ PageIdle /\ EditIdle /\ SoilIdle
SpecMosaic == InitMosaicSpec /\ [][NextMosaic]_vars

InitCutFillSpec ==
    InitCutFill /\ ConvIdle /\ MosaicIdle /\ LidarIdle /\ ProfIdle /\ FemaIdle
    /\ PageIdle /\ EditIdle /\ SoilIdle
SpecCutFill == InitCutFillSpec /\ [][NextCutFill]_vars

SpecRoundTrip == InitConvertSpec /\ [][NextRoundTrip]_vars
InitAnyOrderSpec ==
    InitAnyOrder /\ MosaicIdle /\ CutIdle /\ LidarIdle /\ ProfIdle /\ FemaIdle
    /\ PageIdle /\ EditIdle /\ SoilIdle
SpecAnyOrder == InitAnyOrderSpec /\ [][NextAnyOrder]_vars
SpecConvertIO == InitConvertSpec /\ [][NextConvertIO]_vars

\* Every request returns or raises within its timeout (urlopen(req,
\* timeout=60), line 414), so the loop keeps taking steps.
InitPageSpec ==
    InitPage /\ ConvIdle /\ MosaicIdle /\ CutIdle /\ LidarIdle /\ ProfIdle
    /\ FemaIdle /\ EditIdle /\ SoilIdle
InitEditSpec ==
    InitEdit /\ ConvIdle /\ MosaicIdle /\ CutIdle /\ LidarIdle /\ ProfIdle
    /\ FemaIdle /\ PageIdle /\ SoilIdle
SpecEdit == InitEditSpec /\ [][NextEdit]_vars
InitSoilSpec ==
    InitSoil /\ ConvIdle /\ MosaicIdle /\ CutIdle /\ LidarIdle /\ ProfIdle
    /\ FemaIdle /\ PageIdle /\ EditIdle
SpecSoil == InitSoilSpec /\ [][NextSoil]_vars
SpecPage == InitPageSpec /\ [][NextPage]_vars /\ WF_vars(NextPage)

InitMosaicIOSpec ==
    InitMosaicIO /\ ConvIdle /\ CutIdle /\ LidarIdle /\ ProfIdle /\ FemaIdle
    /\ PageIdle /\ EditIdle /\ SoilIdle
SpecMosaicIO == InitMosaicIOSpec /\ [][NextMosaicIO]_vars

InitLidarSpec ==
    InitLidar /\ ConvIdle /\ CutIdle /\ ProfIdle /\ FemaIdle
    /\ PageIdle /\ EditIdle /\ SoilIdle
SpecLidar == InitLidarSpec /\ [][NextLidar]_vars

InitProfileSpec ==
    InitProfile /\ ConvIdle /\ MosaicIdle /\ CutIdle /\ LidarIdle /\ FemaIdle
    /\ PageIdle /\ EditIdle /\ SoilIdle
SpecProfile == InitProfileSpec /\ [][NextProfile]_vars

InitFemaSpec ==
    InitFema /\ ConvIdle /\ MosaicIdle /\ CutIdle /\ LidarIdle /\ ProfIdle
    /\ PageIdle /\ EditIdle /\ SoilIdle
SpecFema == InitFemaSpec /\ [][NextFema]_vars

InitCutFillNodataSpec ==
    /\ InitCutFillNodata
    /\ ConvIdle /\ MosaicIdle /\ LidarIdle /\ ProfIdle /\ FemaIdle
    /\ PageIdle /\ EditIdle /\ SoilIdle
SpecCutFillNodata == InitCutFillNodataSpec /\ [][NextCutFill]_vars

(***************************************************************************)
(* Properties of the unit conversion pass (SpecConvert)                    *)
(***************************************************************************)
\* Every cell that was valid before the pass holds input * factor once the
\* pass is done.
ValidCellsScaled ==
    conv_pc = "done" =>
        \A cell \in DOMAIN conv_band :
            cell \notin conv_ds.nodata_cells =>
                RatEq(conv_band[cell], RatMul(Rat(Elev(cell)), METERS_TO_FEET))

\* C1: after the pass, every valid cell holds input * factor and every cell
\* that held the nodata sentinel still holds exactly that sentinel.
C1_ConversionKeepsNodata ==
    conv_pc = "done" =>
        \A cell \in DOMAIN conv_band :
            IF cell \in conv_ds.nodata_cells
            THEN RatEq(conv_band[cell], Rat(conv_ds.nodata))
            ELSE RatEq(conv_band[cell],
                       RatMul(Rat(Elev(cell)), METERS_TO_FEET))

(***************************************************************************)
(* Properties of the mosaic builder (SpecMosaic)                           *)
(***************************************************************************)
\* The members of the virtual mosaic whose extent holds world pixel p.
CoveringTiles(p) ==
    {i \in 1..Len(tile_paths) : Covers(tile_files[tile_paths[i]], p)}
\* Those of them that hold a valid sample there.
ValidTiles(p) ==
    {i \in CoveringTiles(p) :
        Sample(tile_files[tile_paths[i]], p) # tile_files[tile_paths[i]].nodata}
VrtPixels == vrt.x0..(vrt.x0 + vrt.xsize - 1)

\* C2 as stated: a pixel covered by two or more member tiles holds the sample
\* of the last covering tile of the list.
C2_LastCoveringTileWins ==
    vrt.exists =>
        \A p \in VrtPixels :
            Cardinality(CoveringTiles(p)) >= 2 =>
                Sample(vrt, p) =
                    Sample(tile_files[tile_paths[SetMax(CoveringTiles(p))]], p)

\* C2 amended: a pixel covered by two or more member tiles holds the sample
\* of the last tile of the list that has a valid (non-nodata) sample there,
\* and nodata when no covering tile has one.
C2_LastValidTileWins ==
    vrt.exists =>
        \A p \in VrtPixels :
            Cardinality(CoveringTiles(p)) >= 2 =>
                IF ValidTiles(p) = {}
                THEN Sample(vrt, p) = vrt.nodata
                ELSE Sample(vrt, p) =
                        Sample(tile_files[tile_paths[SetMax(ValidTiles(p))]], p)

\* Two member tiles hold different valid samples for one pixel, and one where
\* the later tile holds nodata over a valid sample of the earlier one.
C2_Witness ==
    /\ vrt.exists
    /\ \E p \in VrtPixels : Cardinality(ValidTiles(p)) >= 2
    /\ \E p \in VrtPixels :
          /\ ValidTiles(p) # {}
          /\ SetMax(CoveringTiles(p)) \notin ValidTiles(p)

\* How often the path of record k occurs in the groups.
Occurrences(k) ==
    Cardinality({gj \in {g \in DOMAIN tiles_by_gsd : TRUE} \X (1..Len(results)) :
                    /\ gj[2] <= Len(tiles_by_gsd[gj[1]])
                    /\ tiles_by_gsd[gj[1]][gj[2]] = results[k].local_path})
GroupedPaths ==
    UNION {{tiles_by_gsd[g][j] : j \in 1..Len(tiles_by_gsd[g])} :
             g \in DOMAIN tiles_by_gsd}
GroupingDone == mosaic_pc # "group" \/ res_i > Len(results)
HasFile(k) == results[k].local_path # NoPath /\ results[k].status # "error"

\* C3 as stated: every input record occurs in exactly one group and the
\* groups together hold the paths of all input records.
C3_EveryTileGrouped ==
    GroupingDone =>
        /\ \A k \in 1..Len(results) : Occurrences(k) = 1
        /\ GroupedPaths = {results[k].local_path : k \in 1..Len(results)}

\* C3 amended: every record with a local file and a status other than
\* 'error' occurs exactly once, in the group of its own GSD; a record
\* without a file or with status 'error' occurs in no group; the groups
\* together hold exactly the paths of the usable records.
C3_UsableTilesGrouped ==
    GroupingDone =>
        /\ \A k \in 1..Len(results) :
              IF HasFile(k)
              THEN /\ Occurrences(k) = 1
                   /\ results[k].dem_gsd_meters \in DOMAIN tiles_by_gsd
                   /\ \E j \in 1..Len(tiles_by_gsd[results[k].dem_gsd_meters]) :
                         tiles_by_gsd[results[k].dem_gsd_meters][j]
                            = results[k].local_path
              ELSE Occurrences(k) = 0
        /\ GroupedPaths =
              {results[k].local_path : k \in {h \in 1..Len(results) : HasFile(h)}}

\* The loop is over, with a failed record listed before a usable one.
C3_Witness ==
    /\ GroupingDone
    /\ \E k, h \in 1..Len(results) : k < h /\ ~HasFile(k) /\ HasFile(h)
    /\ tiles_by_gsd # <<>>

\* The paths of the usable records of GSD g, in the order of the records.
RECURSIVE PathsOfGsd(_, _)
PathsOfGsd(g, k) ==
    IF k > Len(results) THEN <<>>
    ELSE IF HasFile(k) /\ results[k].dem_gsd_meters = g
         THEN <<results[k].local_path>> \o PathsOfGsd(g, k + 1)
         ELSE PathsOfGsd(g, k + 1)
UsableGsds == {results[k].dem_gsd_meters : k \in {h \in 1..Len(results) : HasFile(h)}}
Selected == mosaic_pc \in {"build_vrt", "warp", "cleanup", "convert", "info", "done"}

\* C4: the list handed to the mosaic builder is exactly the usable tiles of
\* the numerically smallest GSD, in the order of the records; no tile of a
\* coarser GSD is in it.
C4_FinestGroupOnly ==
    Selected =>
        /\ tile_paths = PathsOfGsd(SetMin(UsableGsds), 1)
        /\ \A i \in 1..Len(tile_paths) :
              \A g \in UsableGsds :
                  results[tile_paths[i]].dem_gsd_meters <= g

\* Tiles of two GSDs are usable, a coarser one listed before a finer one.
C4_Witness ==
    /\ Selected
    /\ \E k, h \in 1..Len(results) :
          /\ k < h /\ HasFile(k) /\ HasFile(h)
          /\ results[k].dem_gsd_meters > results[h].dem_gsd_meters

\* C5: when no record is usable, create_mosaic ends in its error and neither
\* a virtual mosaic nor the output raster is ever created.
C5_EmptyInputFails ==
    (\A k \in 1..Len(results) : ~HasFile(k)) =>
        /\ mosaic_pc \in {"group", "failed"}
        /\ (GroupingDone /\ mosaic_pc = "group" => ENABLED GroupsEmpty)
        /\ ~vrt.exists
        /\ ~mosaic.exists
        /\ tile_paths = <<>>

\* create_mosaic has failed on a list that holds only failed records.
C5_Witness ==
    /\ mosaic_pc = "failed"
    /\ Len(results) >= 1
    /\ \A k \in 1..Len(results) : results[k].status = "error"

\* C12: no step of create_mosaic (building the virtual mosaic, warping and
\* clipping it, the unit conversion) changes a source tile file; the files
\* written are the virtual mosaic and the output raster only.
C12_SourceTilesReadOnly == [][tile_files' = tile_files]_vars

\* create_mosaic has clipped and converted a mosaic of two tiles: the output
\* raster holds feet, the virtual mosaic has been written and removed.
C12_Witness ==
    /\ mosaic_pc = "done"
    /\ convert_to_feet
    /\ aoi_layer.exists
    /\ Len(tile_paths) >= 2
    /\ ~vrt.exists
    /\ mosaic.exists
    /\ \E cell \in DOMAIN mosaic.band : mosaic.band[cell][2] # 1

(***************************************************************************)
(* Properties of the cut/fill tool (SpecCutFill)                           *)
(***************************************************************************)
\* The sample raster r holds for the ground point (gx, gy): that of the cell
\* the point lies in.
CellOf(r, gx, gy) ==
    <<(gx - r.gt0) \div r.gt1, (r.gt3 - gy) \div (0 - r.gt5)>>
SampleAt(r, gx, gy) == r.data[CellOf(r, gx, gy)]
\* The ground point of the upper left corner of output cell (c, r).
GroundX(c) == output_ds.gt0 + c * output_ds.gt1
GroundY(r) == output_ds.gt3 + r * output_ds.gt5
DifferenceWritten == cut_pc \in {"volumes", "report", "done"}

\* C6: every cell of the output raster holds proposed minus existing, both
\* sampled at the ground location of that cell, whatever the pixel sizes and
\* origins of the two rasters.
C6_DifferenceAligned ==
    DifferenceWritten =>
        \A cell \in DOMAIN output_ds.data :
            output_ds.data[cell] =
                SampleAt(proposed_dem, GroundX(cell[1]), GroundY(cell[2]))
                - SampleAt(existing_dem, GroundX(cell[1]), GroundY(cell[2]))

\* The same, for two rasters of one pixel size.
DifferenceAlignedSamePixel ==
    (DifferenceWritten /\ existing_dem.gt1 = proposed_dem.gt1) =>
        \A cell \in DOMAIN output_ds.data :
            output_ds.data[cell] =
                SampleAt(proposed_dem, GroundX(cell[1]), GroundY(cell[2]))
                - SampleAt(existing_dem, GroundX(cell[1]), GroundY(cell[2]))

\* Two rasters of one pixel size never make a read fail.
SamePixelReadsSucceed ==
    (cut_pc = "difference" /\ existing_dem.gt1 = proposed_dem.gt1) =>
        existing_data.exists /\ proposed_data.exists

\* The sum of the negative and of the positive samples of an array, cell by
\* cell.
RECURSIVE SignedSum(_, _, _)
SignedSum(d, cells, sign) ==
    IF cells = {} THEN 0
    ELSE LET c == CHOOSE c \in cells : TRUE
             part == IF d[c] * sign > 0 THEN d[c] ELSE 0
         IN  part + SignedSum(d, cells \ {c}, sign)
CommonResolution ==
    IF existing_dem.gt1 <= proposed_dem.gt1
    THEN existing_dem.gt1 ELSE proposed_dem.gt1
\* The example of the specification: a 2 x 2 grid of unit cells raised by 1.
RaisedByOne ==
    /\ existing_dem = DemRaster("EPSG:2223", 0, 0, 1, 2, 2, 0)
    /\ proposed_dem = DemRaster("EPSG:2223", 0, 0, 1, 2, 2, 1)

\* C7: cut_volume = (sum of the negative differences) * cell_area / 27,
\* fill_volume = (sum of the positive differences) * cell_area / 27,
\* net_volume = fill_volume + cut_volume, cell_area the square of the common
\* resolution; a 2 x 2 grid of unit cells raised by 1 gives 4/27, 0, 4/27.
C7_VolumeFormulas ==
    volumes.exists =>
        LET d == output_ds.data
            area == CommonResolution * CommonResolution
            cut == volumes.cut_volume
            fill == volumes.fill_volume
            net == volumes.net_volume
        IN  /\ cut[1] * CubicYard = SignedSum(d, DOMAIN d, 0 - 1) * area * cut[2]
            /\ fill[1] * CubicYard = SignedSum(d, DOMAIN d, 1) * area * fill[2]
            /\ net[1] * fill[2] * cut[2]
                  = (fill[1] * cut[2] + cut[1] * fill[2]) * net[2]
            /\ RaisedByOne =>
                  fill = <<4, 27>> /\ cut = <<0, 1>> /\ net = <<4, 27>>

\* Volumes of a difference with cut and fill cells on a grid of resolution 2.
C7_Witness ==
    /\ cut_pc = "done"
    /\ CommonResolution = 2
    /\ volumes.cut_volume[1] < 0
    /\ volumes.fill_volume[1] > 0
    /\ volumes.net_volume[1] # 0

\* C8: for identical inputs the difference is zero at every cell and the
\* three volumes are 0.
C8_IdenticalInputsZero ==
    existing_dem = proposed_dem =>
        /\ cut_pc \notin {"error", "crs_error"}
        /\ difference.exists => \A cell \in DOMAIN difference.data :
                                    difference.data[cell] = 0
        /\ DifferenceWritten => \A cell \in DOMAIN output_ds.data :
                                    output_ds.data[cell] = 0
        /\ volumes.exists =>
              /\ volumes.cut_volume = Rat(0)
              /\ volumes.fill_volume = Rat(0)
              /\ volumes.net_volume = Rat(0)
        /\ cut_pc = "done" =>
              /\ volumes.exists
              /\ Len(reported) = 3
              /\ \A k \in 1..3 :
                    reported[k] = [hundredths |-> 0, minus_zero |-> FALSE]

\* The tool has run on two identical rasters whose samples are not all equal.
C8_Witness ==
    /\ existing_dem = proposed_dem
    /\ cut_pc = "done"
    /\ \E a, b \in DOMAIN existing_dem.data :
          existing_dem.data[a] # existing_dem.data[b]

\* The extents of the two rasters, from their geotransforms and sizes.
Left(r) == r.gt0
Right(r) == r.gt0 + r.gt1 * r.xsize
Top(r) == r.gt3
Bottom(r) == r.gt3 + r.gt5 * r.ysize
NoOverlap ==
    \/ Right(existing_dem) <= Left(proposed_dem)
    \/ Right(proposed_dem) <= Left(existing_dem)
    \/ Top(existing_dem) <= Bottom(proposed_dem)
    \/ Top(proposed_dem) <= Bottom(existing_dem)

\* C9: when the extents are disjoint or their intersection has no area, the
\* tool ends in an error; no output raster is created, no volume computed or
\* reported.
C9_NoOverlapFails ==
    NoOverlap =>
        /\ cut_pc \in {"check_crs", "create", "error", "crs_error"}
        /\ ~output_ds.exists
        /\ ~difference.exists
        /\ ~volumes.exists
        /\ reported = <<>>

\* The tool has failed on two rasters of one CRS whose extents are apart:
\* the proposed raster lies to the east of the existing one, with a gap
\* between them, in rows they share.
C9_Witness ==
    /\ cut_pc = "error"
    /\ existing_dem.crs = proposed_dem.crs
    /\ Right(existing_dem) < Left(proposed_dem)
    /\ Top(existing_dem) > Bottom(proposed_dem)
    /\ Top(proposed_dem) > Bottom(existing_dem)
    /\ grid.width < 0

\* The tool fails as well on extents that only touch along one edge: an
\* intersection without area.
TouchingExtentsFail ==
    (/\ cut_pc \notin {"check_crs", "create", "crs_error"}
     /\ \/ Right(existing_dem) = Left(proposed_dem)
        \/ Top(proposed_dem) = Bottom(existing_dem))
        => cut_pc = "error"

\* C10: when the two rasters do not share one CRS, the tool ends in the CRS
\* error and does nothing else: no grid, no read, no output raster, no
\* volumes, and both rasters keep their CRS and their samples.
C10_CrsMismatchFails ==
    existing_dem.crs # proposed_dem.crs =>
        /\ cut_pc \in {"check_crs", "crs_error"}
        /\ cut_pc = "check_crs" => ENABLED CrsMismatch
        /\ grid = NoGrid
        /\ ~output_ds.exists
        /\ ~existing_data.exists /\ ~proposed_data.exists
        /\ ~volumes.exists
        /\ reported = <<>>

\* The tool has stopped at the CRS check on two rasters that overlap.
C10_Witness ==
    /\ cut_pc = "crs_error"
    /\ existing_dem.crs # proposed_dem.crs
    /\ ~NoOverlap

(***************************************************************************)
(* Nodata in the cut/fill tool (SpecCutFillNodata)                         *)
(***************************************************************************)
\* The cells of the common grid whose sample is the nodata sentinel in the
\* window read from either raster.
VoidCells ==
    {cell \in DOMAIN difference.data :
        \/ existing_data.data[cell] = existing_dem.nodata
        \/ proposed_data.data[cell] = proposed_dem.nodata}
\* The difference at the cells that are valid in both rasters.
ValidDifference ==
    [cell \in DOMAIN difference.data \ VoidCells |-> difference.data[cell]]

\* C11: a cell that is nodata in either source raster is nodata in the
\* output difference raster and takes no part in the cut, fill and net sums:
\* the volumes are those of the cells valid in both rasters.
C11_NodataPropagates ==
    /\ DifferenceWritten =>
          \A cell \in VoidCells :
              /\ output_ds.nodata.exists
              /\ output_ds.data[cell] = output_ds.nodata.value
    /\ volumes.exists =>
          volumes = Volumes(ValidDifference, grid.pixel_size)

\* The same for the volumes alone.
VolumesSkipNodata ==
    volumes.exists => volumes = Volumes(ValidDifference, grid.pixel_size)

(***************************************************************************)
(* Cancellation of the LiDAR downloader (SpecLidar)                        *)
(***************************************************************************)
\* C13: once the download loop has seen the cancellation flag set, the tool
\* stops: no later step runs on the partial result, so create_mosaic is
\* never entered and neither a virtual mosaic nor an output raster is made.
C13_CancelStopsPipeline ==
    cancel_seen =>
        /\ mosaic_pc = "idle"
        /\ ~vrt.exists
        /\ ~mosaic.exists

\* After the flag has been seen no tile is fetched and no record added.
NoFetchAfterCancel ==
    [][cancel_seen => (results' = results /\ tile_files' = tile_files)]_vars

(***************************************************************************)
(* Failures inside create_mosaic (SpecMosaicIO)                            *)
(***************************************************************************)
\* C14: when gdal.Warp reports failure, create_mosaic fails with an error:
\* it neither passes the unit conversion step nor reports that the mosaic
\* was created, nor returns normally.
C14_WarpFailureRaises ==
    "Warp" \in mosaic_faults =>
        /\ mosaic_pc \in {"cleanup", "convert", "failed"}
        /\ ~mosaic_info.exists

\* C16: a failure inside the pipeline is surfaced.  create_mosaic does not
\* return normally after the virtual mosaic could not be built or the output
\* raster could not be opened for the conversion, and it does not report
\* elevations in feet when the conversion did not run.
C16_FailuresSurfaced ==
    /\ mosaic_pc = "done" =>
          "BuildVRT" \notin mosaic_faults /\ "Open" \notin mosaic_faults
    /\ (mosaic_info.exists /\ mosaic_info.units = "ft") =>
          "Open" \notin mosaic_faults

\* The report alone: feet are reported only for a converted raster.
FeetReportedOnlyIfConverted ==
    (mosaic_info.exists /\ mosaic_info.units = "ft") =>
        "Open" \notin mosaic_faults

(***************************************************************************)
(* Raster I/O failures in the unit conversion pass (SpecConvertIO)         *)
(***************************************************************************)
\* The window a cell lies in, and whether the loop has passed a window.
WindowOf(cell) ==
    <<(cell[1] \div chunk_size) * chunk_size,
      (cell[2] \div chunk_size) * chunk_size>>
WindowPassed(w) ==
    \/ conv_pc \in {"flush", "done"}
    \/ conv_pc = "loop" /\ (w[2] < conv_y \/ (w[2] = conv_y /\ w[1] < conv_x))

\* Every valid cell of a window that was read and written holds its
\* converted value, whatever happened to the windows after it.
WrittenWindowsKept ==
    \A cell \in DOMAIN conv_band :
        (/\ WindowPassed(WindowOf(cell))
         /\ WindowOf(cell) \notin conv_io
         /\ cell \notin conv_ds.nodata_cells)
        => RatEq(conv_band[cell], RatMul(Rat(Elev(cell)), METERS_TO_FEET))

\* C15: when the read or the write of a window fails the pass fails with an
\* error: it does not go on to another window nor end normally; the windows
\* written before keep their converted values.
C15_WindowFailureRaises ==
    /\ conv_io # {} => conv_pc = "failed"
    /\ WrittenWindowsKept

(***************************************************************************)
(* Round trip of the unit conversion pass (SpecRoundTrip)                  *)
(***************************************************************************)
\* At the end of the second pass every cell holds the value it started with
\* (in exact arithmetic).
RoundTripRestoresValues ==
    conv_pc = "inverse_done"
        => \A cell \in DOMAIN conv_band :
               RatEq(conv_band[cell], InputValue(conv_ds, cell))

\* C17: the pass with factor f followed by the pass with factor 1/f gives
\* every valid cell its original value back, and the nodata cells are left
\* unchanged: at the end of either pass they hold the sentinel.
C17_RoundTrip ==
    /\ conv_pc = "inverse_done"
           => \A cell \in DOMAIN conv_band \ conv_ds.nodata_cells :
                  RatEq(conv_band[cell], Rat(Elev(cell)))
    /\ conv_pc \in {"done", "inverse_done"}
           => \A cell \in conv_ds.nodata_cells :
                  conv_band[cell] = Rat(conv_ds.nodata)

(***************************************************************************)
(* Sign convention of the volumes (SpecCutFill)                            *)
(***************************************************************************)
\* C18: internally cut_volume <= 0 <= fill_volume; the cut volume shown is
\* the non-negative magnitude -cut_volume, fill and net are shown with their
\* own sign.
C18_SignConvention ==
    /\ volumes.exists =>
           /\ volumes.cut_volume[1] <= 0
           /\ volumes.fill_volume[1] >= 0
    /\ cut_pc = "done" =>
           LET cut == volumes.cut_volume
           IN  /\ reported[1].hundredths = Hundredths(<<0 - cut[1], cut[2]>>)
               /\ reported[1].hundredths >= 0 /\ ~reported[1].minus_zero
               /\ reported[2].hundredths = Hundredths(volumes.fill_volume)
               /\ reported[3].hundredths = Hundredths(volumes.net_volume)

\* A report with cut and fill in which the cut outweighs the fill: the cut
\* is shown positive, the net negative.
C18_Witness ==
    /\ cut_pc = "done"
    /\ volumes.cut_volume[1] < 0
    /\ volumes.fill_volume[1] > 0
    /\ volumes.net_volume[1] < 0
    /\ reported[1].hundredths > 0
    /\ reported[2].hundredths > 0
    /\ reported[3].hundredths < 0

(***************************************************************************)
(* Sampling interval of the profile generator (SpecProfile)                *)
(***************************************************************************)
\* The interval the help text gives: "Samples elevation every 1 foot".
HelpInterval == 1

\* C19: along every segment a sample is taken every 1 unit of distance from
\* the start of the segment: two rows recorded one after the other on the
\* same segment are 1 apart.
C19_SampleEveryFoot ==
    \A k \in 1..(Len(profile_data) - 1) :
        (/\ profile_data[k].part = profile_data[k + 1].part
         /\ profile_data[k].segment = profile_data[k + 1].segment)
        => profile_data[k + 1].distance - profile_data[k].distance = HelpInterval

\* What the loop does: rows of one segment are a multiple of 4 apart.
RowsAreStepApart ==
    \A k \in 1..(Len(profile_data) - 1) :
        (/\ profile_data[k].part = profile_data[k + 1].part
         /\ profile_data[k].segment = profile_data[k + 1].segment)
        => profile_data[k + 1].distance - profile_data[k].distance = SampleStep

(***************************************************************************)
(* Clip policy of the FEMA NFHL downloader (SpecFema)                      *)
(***************************************************************************)
\* The layers of the record that were saved as a shapefile.
SavedRecords == {k \in DOMAIN fema_log : fema_log[k].saved}

\* C20: a reference layer (clip = False) is never clipped to the AOI,
\* whatever the option; a layer with clip = True is clipped exactly when the
\* option is checked: none is clipped with the option unchecked and none is
\* saved unclipped with the option checked.
C20_ClippedWhenChecked ==
    /\ \A k \in DOMAIN fema_log :
          ~AVAILABLE_LAYERS[fema_log[k].layer].clip => ~fema_log[k].clipped
    /\ \A k \in DOMAIN fema_log :
          fema_log[k].clipped => clip_layers
    /\ \A k \in SavedRecords :
          AVAILABLE_LAYERS[fema_log[k].layer].clip
              => (fema_log[k].clipped <=> clip_layers)

\* What the loop keeps: a reference layer is never clipped, and no layer is
\* clipped with the option unchecked.
ReferenceLayersNeverClipped ==
    \A k \in DOMAIN fema_log :
        fema_log[k].clipped
            => (clip_layers /\ AVAILABLE_LAYERS[fema_log[k].layer].clip)

(***************************************************************************)
(* Windows of the unit conversion pass (SpecConvert, SpecAnyOrder)         *)
(***************************************************************************)
\* The window lies inside the raster and is not empty.
WindowInside(w, ds) ==
    /\ w[1] >= 0 /\ w[2] >= 0
    /\ w[3] >= 1 /\ w[4] >= 1
    /\ w[1] + w[3] <= ds.xsize
    /\ w[2] + w[4] <= ds.ysize

\* Two windows share a cell.
WindowsOverlap(v, w) ==
    /\ v[1] < w[1] + w[3] /\ w[1] < v[1] + v[3]
    /\ v[2] < w[2] + w[4] /\ w[2] < v[2] + v[4]

\* The number of cells of a set of windows, counted window by window.
RECURSIVE WindowCells(_)
WindowCells(ws) ==
    IF ws = {} THEN 0
    ELSE LET w == CHOOSE w \in ws : TRUE
         IN  w[3] * w[4] + WindowCells(ws \ {w})

\* The cell has been multiplied by the factor exactly once.
ScaledOnce(cell) ==
    RatEq(conv_band[cell], RatMul(InputValue(conv_ds, cell), METERS_TO_FEET))

\* C21: for every raster width and height the windows visited stay inside
\* the raster and, when the loops are over, every cell lies in exactly one
\* window: no window is visited twice, no two windows share a cell, and
\* together they have as many cells as the raster; each cell has then been
\* multiplied by the factor exactly once.
C21_WindowCoverage ==
    LET ws == BagToSet(conv_windows)
    IN  /\ \A w \in ws : WindowInside(w, conv_ds) /\ CopiesIn(w, conv_windows) = 1
        /\ \A v, w \in ws : v # w => ~WindowsOverlap(v, w)
        /\ conv_pc \in {"flush", "done"} =>
               /\ WindowCells(ws) = conv_ds.xsize * conv_ds.ysize
               /\ \A cell \in DOMAIN conv_band :
                      /\ Cardinality({w \in ws : WindowsOverlap(w, <<cell[1], cell[2], 1, 1>>)}) = 1
                      /\ ScaledOnce(cell)

\* A finished pass over a raster one cell wider than a chunk and one cell
\* lower than a chunk: two windows, the second one cell wide.
C21_Witness ==
    /\ conv_pc = "done"
    /\ conv_ds.xsize = chunk_size + 1
    /\ conv_ds.ysize = chunk_size - 1
    /\ BagCardinality(conv_windows) = 2
    /\ BagIn(<<chunk_size, 0, 1, chunk_size - 1>>, conv_windows)

\* C22: whatever the order in which the windows are processed, the final
\* raster is the one the row-major order of the code yields.
C22_OrderIndependent ==
    conv_pc = "done" =>
        conv_band = ConvertFrom([cell \in DOMAIN conv_band |-> InputValue(conv_ds, cell)],
                                conv_ds.xsize, conv_ds.ysize, 0, 0)

\* A finished pass over four windows that took the first window of the
\* row-major order last.
C22_Witness ==
    /\ conv_pc = "done"
    /\ BagCardinality(conv_windows) = 4
    /\ conv_x = 0
    /\ conv_y = 0
    /\ \E cell \in DOMAIN conv_band : conv_band[cell][2] # 1

(***************************************************************************)
(* Lifecycle of the output raster (SpecLidar)                              *)
(***************************************************************************)
\* How often an operation was done on the output raster, and when first.
OpCount(op) == Cardinality({k \in DOMAIN mosaic_ops : mosaic_ops[k] = op})
OpDone(op) == \E k \in DOMAIN mosaic_ops : mosaic_ops[k] = op
OpBefore(a, b) ==
    \A k \in DOMAIN mosaic_ops :
        mosaic_ops[k] = b => \E j \in 1..(k - 1) : mosaic_ops[j] = a

\* C23: in one invocation the output raster is materialized by exactly one
\* warp of the virtual mosaic; the unit conversion runs at most once, only
\* when requested, only after the warp, and before the contour generation
\* reads the raster.
C23_OutputLifecycle ==
    /\ OpCount("warp") <= 1
    /\ mosaic.exists <=> OpCount("warp") = 1
    /\ OpCount("convert") <= 1
    /\ OpDone("convert") => convert_to_feet
    /\ OpBefore("warp", "convert")
    /\ OpBefore("warp", "contours")
    /\ (convert_to_feet /\ OpDone("contours")) => OpBefore("convert", "contours")
    /\ \A k \in DOMAIN mosaic_ops :
          mosaic_ops[k] = "contours" => k = Len(mosaic_ops)
    /\ lidar_pc = "done" =>
          /\ OpCount("warp") = 1
          /\ convert_to_feet <=> OpDone("convert")
          /\ generate_contours <=> OpDone("contours")

\* A run that has warped, converted and then generated contours.
C23_Witness ==
    /\ lidar_pc = "done"
    /\ mosaic_ops = <<"warp", "convert", "contours">>
    /\ mosaic_info.exists

(***************************************************************************)
(* Download records and the tiles that reach the mosaic (SpecLidar)        *)
(***************************************************************************)
\* The path belongs to a record whose tile was downloaded or found on disk.
PathOfGoodTile(path) ==
    /\ path # NoPath
    /\ \E k \in 1..Len(results) :
          /\ results[k].local_path = path
          /\ results[k].status \in {"downloaded", "exists"}
\* The paths create_mosaic hands to gdal.BuildVRT.
MosaicPaths == {tile_paths[i] : i \in 1..Len(tile_paths)}

\* What the grouping loop keeps: every entry of a group is the local_path of
\* a record with status 'downloaded' or 'exists', the groups have no more
\* entries than there are such records, and the path list given to the
\* mosaic builder is one of the groups.
ErrorRecordsNotGrouped ==
    /\ \A path \in GroupedPaths \cup MosaicPaths : PathOfGoodTile(path)
    /\ Cardinality({gi \in (DOMAIN tiles_by_gsd) \X (1..Len(results)) :
                        gi[2] <= Len(tiles_by_gsd[gi[1]])})
          <= Cardinality({k \in 1..Len(results) :
                            results[k].status \in {"downloaded", "exists"}})
    /\ tile_paths # <<>> =>
          \E g \in DOMAIN tiles_by_gsd : tile_paths = tiles_by_gsd[g]

\* The file at path is what the failed fetch of a tile left there: the tile
\* is recorded with status 'error' and the file holds the bytes that arrived
\* before its transfer broke off.
LeftByFailedFetch(path) ==
    \E j \in 1..Len(results), delivered \in DeliveredSizes :
        /\ results[j].status = "error"
        /\ OutputPath(all_tiles[j]) = path
        /\ tile_files[path] = PartialFile(j, delivered)

\* C25: a tile whose download failed never reaches the mosaic: whatever the
\* download outcomes, a tile recorded with status 'error' (or without local
\* path) is in no resolution group, and the path list given to the mosaic
\* builder holds only tiles with status 'downloaded' or 'exists', none of
\* its files being what a failed fetch left.
C25_FailedTileNotMosaicked ==
    /\ ErrorRecordsNotGrouped
    /\ \A path \in MosaicPaths : ~LeftByFailedFetch(path)

\* C26: download_tiles returns one record for each tile it iterated, in
\* input order, a prefix of the input list and the whole list when it was
\* never cancelled; every status is exists, downloaded or error, and
\* local_path is None exactly when the status is error.
C26_DownloadRecords ==
    /\ Len(results) <= Len(all_tiles)
    /\ Len(results) = tile_i - 1
    /\ \A k \in 1..Len(results) :
          /\ results[k].dem_gsd_meters = all_tiles[k].dem_gsd_meters
          /\ results[k].status \in {"exists", "downloaded", "error"}
          /\ results[k].local_path = NoPath <=> results[k].status = "error"
          /\ results[k].local_path # NoPath =>
                results[k].local_path = all_tiles[k].url
    /\ (lidar_pc \notin {"download", "fetch"} /\ ~cancel_seen) =>
          Len(results) = Len(all_tiles)

\* download_tiles has returned after a cancellation with fewer records than
\* tiles, one of them failed.
C26_Witness ==
    /\ lidar_pc = "manifest"
    /\ cancel_seen
    /\ Len(results) >= 1
    /\ Len(results) < Len(all_tiles)
    /\ results[1].status = "error"

(***************************************************************************)
(* Read windows and the CRS check of the cut/fill tool (SpecCutFill)       *)
(***************************************************************************)
\* The window asked of raster r for the common grid g lies inside r.
ReadWindowInside(r, g) ==
    /\ XOff(r, g) >= 0 /\ YOff(r, g) >= 0
    /\ g.width >= 1 /\ g.height >= 1
    /\ XOff(r, g) + g.width <= r.xsize
    /\ YOff(r, g) + g.height <= r.ysize
WindowsRequested == cut_pc \in {"difference", "volumes", "report", "done"}

\* C24: for every pair of overlapping rasters, the window requested from
\* each source raster has non-negative offsets, positive width and height
\* and lies inside that raster, also when the pixel sizes differ.
C24_ReadWindowsInBounds ==
    WindowsRequested =>
        /\ ReadWindowInside(existing_dem, grid)
        /\ ReadWindowInside(proposed_dem, grid)

\* The same, for two rasters of one pixel size.
ReadWindowsInBoundsSamePixel ==
    (WindowsRequested /\ existing_dem.gt1 = proposed_dem.gt1) =>
        /\ ReadWindowInside(existing_dem, grid)
        /\ ReadWindowInside(proposed_dem, grid)

\* C27: when the CRS check fails nothing has been created, written or
\* reported, and an output raster exists only after the check has passed,
\* on two rasters of one CRS.
C27_CrsCheckBeforeWrite ==
    /\ cut_pc = "crs_error" =>
          /\ existing_dem.crs # proposed_dem.crs
          /\ ~output_ds.exists /\ ~difference.exists
          /\ ~volumes.exists /\ reported = <<>>
    /\ (output_ds.exists \/ difference.exists \/ reported # <<>>) =>
          /\ existing_dem.crs = proposed_dem.crs
          /\ grid.exists
          /\ cut_pc \notin {"check_crs", "crs_error", "create"}
    /\ cut_pc = "check_crs" => ~output_ds.exists /\ reported = <<>>

\* The check has failed on two rasters that differ in nothing but the CRS.
C27_Witness ==
    /\ cut_pc = "crs_error"
    /\ [proposed_dem EXCEPT !.crs = existing_dem.crs] = existing_dem
    /\ ~output_ds.exists
    /\ reported = <<>>

(***************************************************************************)
(* Pagination of the index query (SpecPage)                                *)
(***************************************************************************)
\* One of the requests made so far has failed.
FaultHit == page_fault.at \in 1..Len(page_requests)
\* The pages answered so far.
PagesAnswered == Len(page_requests) - (IF FaultHit THEN 1 ELSE 0)
\* The last record of the pages answered so far.
LastFetched ==
    IF PagesAnswered * PAGE_SIZE <= page_total
    THEN PagesAnswered * PAGE_SIZE ELSE page_total

PaginationSafe ==
    \* offsets 0, PAGE_SIZE, 2*PAGE_SIZE, ..., none skipped or repeated
    /\ \A k \in 1..Len(page_requests) : page_requests[k] = (k - 1) * PAGE_SIZE
    \* every request but the last was answered with a full page
    /\ \A k \in 1..(Len(page_requests) - 1) :
          /\ page_total - page_requests[k] >= PAGE_SIZE
          /\ page_fault.at # k
    \* the loop stops at a short page, an API error or an exception, only
    /\ page_pc = "done" =>
          \/ FaultHit /\ page_fault.at = Len(page_requests)
          \/ /\ ~FaultHit
             /\ Len(page_requests) >= 1
             /\ page_total - page_requests[Len(page_requests)] < PAGE_SIZE
    \* the records kept: those of the pages answered with a link, in order
    /\ \A i \in 1..(Len(items) - 1) : items[i] < items[i + 1]
    /\ {items[i] : i \in 1..Len(items)} = (1..LastFetched) \ page_empty
    /\ (page_pc = "done" /\ ~FaultHit) => LastFetched = page_total

\* C28: the requests go to the offsets 0, PAGE_SIZE, 2*PAGE_SIZE, ... with
\* no offset skipped or repeated; the loop stops at the first page with fewer
\* than PAGE_SIZE features or at the first API error or exception, and it
\* does stop; an error-free run returns exactly the records with a
\* sourcedem_link, in page order.
C28_Pagination == []PaginationSafe /\ <>(page_pc = "done")

\* An error-free run over more than one page has returned, with a record
\* dropped for its empty link on each page.
C28_Witness ==
    /\ page_pc = "done"
    /\ ~FaultHit
    /\ Len(page_requests) = 2
    /\ page_total > PAGE_SIZE
    /\ {1, PAGE_SIZE + 1} \subseteq page_empty
    /\ Len(items) = page_total - Cardinality(page_empty)

(***************************************************************************)
(* Edit session of the endpoint sampler (SpecEdit)                         *)
(***************************************************************************)
Called(call) == \E k \in DOMAIN edit_calls : edit_calls[k] = call
LastCall == IF edit_calls = <<>> THEN "none" ELSE edit_calls[Len(edit_calls)]
EditExited == edit_pc \in {"done", "failed"}

\* C29: a session the algorithm opened itself is closed on every exit path,
\* by a commit that succeeded (normal return) or by a rollback followed by
\* the error; a session that was open when the algorithm started is never
\* committed and never rolled back, and is still open at the exit.
C29_EditSessionProtocol ==
    /\ started_edit =>
          /\ ~was_editable
          /\ edit_calls[1] = "startEditing"
          /\ edit_pc = "done" =>
                ~editable /\ LastCall = "commitChanges" /\ ~Called("rollBack")
          /\ edit_pc = "failed" => ~editable /\ LastCall = "rollBack"
          /\ ~EditExited => editable
    /\ ~started_edit =>
          /\ ~Called("commitChanges") /\ ~Called("rollBack")
          /\ editable = was_editable
    /\ was_editable =>
          /\ ~started_edit
          /\ ~Called("startEditing")

\* The commit of an own session has failed after a feature was written, and
\* the session was rolled back.
C29_Witness ==
    /\ edit_pc = "failed"
    /\ started_edit
    /\ ~editable
    /\ Called("changeAttributeValue")
    /\ Len(edit_calls) >= 2
    /\ edit_calls[Len(edit_calls) - 1] = "commitChanges"
    /\ LastCall = "rollBack"

\* A caller's session is still open after the field could not be added.
CallerSessionKept ==
    /\ edit_pc = "failed"
    /\ was_editable
    /\ editable
    /\ LastCall = "addAttributes"

(***************************************************************************)
(* Dominant soil component (SpecSoil)                                      *)
(***************************************************************************)
\* The rows of a map unit key, and the keys that have a row.
RowsOfKey(key) == {i \in 1..Len(components) : components[i].mukey = key}
KeysWithRows == {components[i].mukey : i \in 1..Len(components)}
ComponentsSeen == soil_pc \in {"output", "done"}

DominantIsFirstMaximum ==
    ComponentsSeen =>
        /\ DOMAIN dominant_components = KeysWithRows
        /\ \A key \in KeysWithRows :
              LET kept == dominant_components[key]
              IN  /\ kept.cokey \in RowsOfKey(key)
                  /\ kept = components[kept.cokey]
                  /\ \A i \in RowsOfKey(key) :
                        /\ components[i].comppct_r <= kept.comppct_r
                        /\ components[i].comppct_r = kept.comppct_r
                              => kept.cokey <= i

OutputCarriesDominant ==
    soil_pc \in {"output", "done"} =>
        /\ \A k \in 1..Len(soil_out) :
              LET o == soil_out[k]
              IN  /\ o.poly \in 1..(poly_i - 1)
                  /\ o.mukey = soil_polys[o.poly]
                  /\ o.cokey = dominant_components[o.mukey].cokey
                  /\ o.comppct_r = dominant_components[o.mukey].comppct_r
        /\ \A k \in 1..(Len(soil_out) - 1) :
              soil_out[k].poly < soil_out[k + 1].poly
        /\ {soil_out[k].poly : k \in 1..Len(soil_out)} =
              {p \in 1..(poly_i - 1) : soil_polys[p] \in KeysWithRows}
        /\ soil_pc = "done" => poly_i = Len(soil_polys) + 1

\* C30: for every list of component rows, the component kept for a map
\* unit key has the greatest comppct_r among the rows of that key and is the
\* first of the rows tied at it; every output polygon carries the attributes
\* of the component kept for its key, and the polygons whose key has no
\* component are left out.
C30_DominantComponent == DominantIsFirstMaximum /\ OutputCarriesDominant

\* A finished run in which the greatest percentage of a key occurs twice,
\* after a smaller one, one polygon was written and one was left out.
C30_Witness ==
    /\ soil_pc = "done"
    /\ \E i, j, k \in 1..Len(components) :
          /\ i < j /\ j < k
          /\ components[i].mukey = components[j].mukey
          /\ components[j].mukey = components[k].mukey
          /\ components[i].comppct_r < components[j].comppct_r
          /\ components[j].comppct_r = components[k].comppct_r
          /\ dominant_components[components[j].mukey].cokey = j
    /\ Len(soil_out) = 1
    /\ Len(soil_polys) = 2

====
